---- MODULE Spec2Model ----
(***************************************************************************)
(* Model of pci-context-store: the Yjs-backed replicated map (CRDTSync),   *)
(* the EncryptedVault over its storage backend, and the SyncedVault that   *)
(* mirrors the two.  A Y.Map keeps, per key, a YATA-ordered list of items; *)
(* the value of the key is the content of the rightmost item unless that   *)
(* item is deleted.  Deletions travel as a delete set, not as items.       *)
(***************************************************************************)
EXTENDS Integers, Sequences, FiniteSets, TLC

\* ---------------------------------------------------------------- bounds
MaxOps == 3
MaxNet == 1
MaxTasks == 1
MaxCalls == 5
MaxStoreCalls == 4
MaxBackendCalls == 4
MaxEventCalls == 5
MaxServerCalls == 4

\* Replicas are devices; the Y.Doc clientID of a replica is its number.
Replicas == {1, 2}
Keys == {"k1", "k2"}
Values == {"v1"}

NoId == <<0, 0>>
Gone == [gone |-> TRUE]
Absent == [absent |-> TRUE]
Idle == [op |-> "idle"]

\* Two SyncedVaults that exchange deltas.
VARIABLES doc, storage, initialized, observing, tasks, net, produced, opsLeft

\* One EncryptedVault and its caller: the backend it was configured with,
\* its fields, the key buffers allocated so far, the storage backend, the
\* outcome of the last call, and what the calls so far did.
VARIABLES backend, vInitialized, encryptionKey, heap, vData, dbOpen,
          calls, last, destroyed, putVersions, onlyPutDelete, lastPut

syncVars == <<doc, storage, initialized, observing, tasks, net, produced, opsLeft>>

vaultVars == <<backend, vInitialized, encryptionKey, heap, vData, dbOpen,
               calls, last, destroyed, putVersions, onlyPutDelete, lastPut>>

\* One ContextStore and its callers: the vaults map (with the place of each
\* entry in the map's insertion order), the EncryptedVault objects created
\* so far, the calls that are suspended at an await, the latest call made
\* and the latest call that settled.
VARIABLES registry, stamps, vaultObjs, storeTasks, storeCalls, invoked, storeLast

storeVars == <<registry, stamps, vaultObjs, storeTasks, storeCalls, invoked, storeLast>>

\* A MemoryStorage and a SQLiteStorage per vault name, the SQLiteStorages on
\* one database file, driven by the same calls: the maps of the
\* MemoryStorages, the vault_entries table, the mapping the caller got from
\* its latest getAll, and the latest call with what each backend returned.
VARIABLES mem, table, held, bCalls, bLast

backendVars == <<mem, table, held, bCalls, bLast>>

\* One CRDTSync engine, its callers and a peer: the engine's doc and the
\* peer's, the fields status, wsProvider, config.mode, config.peers and
\* syncInterval, the interval timers that are live, the listeners set and
\* the unsubscribe functions handed out, the position of a syncNow call
\* that is executing, the connectToPeers calls suspended at their await,
\* the events the latest step emitted, the latest call, and whether the
\* provider the engine holds has reported 'sync' with no connection-close,
\* connection-error, stop or disconnecting removal since.
VARIABLES eDoc, peerDoc, status, wsProvider, mode, peers, syncInterval,
          timers, listeners, handles, running, pending, emitted, eLast, eCalls,
          synced

eventVars == <<eDoc, peerDoc, status, wsProvider, mode, peers,
               syncInterval, timers, listeners, handles, running, pending,
               emitted, eLast, eCalls, synced>>

\* The HTTP server's per-user stores (UserStorage), one per device: the
\* Yjs doc, the rows of the entries table, the row of the crdt_state table,
\* and the calls made.
VARIABLES uDoc, uRows, uSaved, uCalls, uLast

serverVars == <<uDoc, uRows, uSaved, uCalls, uLast>>

vars == <<syncVars, vaultVars, storeVars, backendVars, eventVars, serverVars>>

\* The variables outside each component.
outsideSync == <<vaultVars, storeVars, backendVars, eventVars, serverVars>>

outsideVault == <<syncVars, storeVars, backendVars, eventVars, serverVars>>

outsideStore == <<syncVars, vaultVars, backendVars, eventVars, serverVars>>

outsideBackend == <<syncVars, vaultVars, storeVars, eventVars, serverVars>>

outsideEvent == <<syncVars, vaultVars, storeVars, backendVars, serverVars>>

outsideServer == <<syncVars, vaultVars, storeVars, backendVars, eventVars>>

\* ---------------------------------------------------------------- crypto
\* AES-256-GCM, symbolically: the ciphertext is determined by plaintext,
\* key and iv, and so is the authentication tag.
encrypt(plaintext, key, iv) ==
  [ciphertext |-> <<"enc", plaintext, key, iv>>,
   iv |-> iv,
   authTag |-> <<"tag", plaintext, key, iv>>]

\* generateKey(): every vault draws its own random key.
generateKey(r) == r

\* ---------------------------------------------------------------- Y.Doc
IdOf(it) == <<it.client, it.clock>>

Range(seq) == {seq[i] : i \in 1..Len(seq)}

ItemsOf(d) == UNION {Range(d.lst[k]) : k \in Keys}

IdsOf(d) == {IdOf(it) : it \in ItemsOf(d)}

\* getState that counts only the items that are not deleted.
getStateLive(d, c) ==
  Cardinality({it \in ItemsOf(d) : it.client = c /\ it.val # Gone})

\* getState(store, client): the next expected clock of client.
getState(d, c) == Cardinality({id \in IdsOf(d) : id[1] = c})

\* Y.encodeStateVector
getStateVector(d) == [c \in Replicas |-> getState(d, c)]

EmptyDoc == [lst |-> [k \in Keys |-> <<>>], pend |-> {}, pendDs |-> {}]

\* Y.Map.get / has / keys: the rightmost item of the key, unless deleted.
MapGet(d, k) ==
  IF d.lst[k] = <<>> THEN Absent
  ELSE LET it == d.lst[k][Len(d.lst[k])]
       IN IF it.val = Gone THEN Absent ELSE it.val

MapHas(d, k) == MapGet(d, k) # Absent

MapKeys(d) == {k \in Keys : MapHas(d, k)}

toJSON(d) == [k \in MapKeys(d) |-> MapGet(d, k)]

\* Item.delete followed by the garbage collection of the content.
MarkDeleted(it) == [it EXCEPT !.val = Gone]

IndexOfId(seq, id) ==
  IF id = NoId THEN 0 ELSE CHOOSE i \in 1..Len(seq) : IdOf(seq[i]) = id

\* Scan with the comparison of client ids reversed: among items of the same
\* origin the lower client id ends up rightmost.
RECURSIVE ScanLowerClientWins(_, _, _, _, _, _)
ScanLowerClientWins(seq, it, o, left, conf, before) ==
  IF o > Len(seq) THEN left
  ELSE LET oi == seq[o]
           before2 == before \cup {IdOf(oi)}
           conf2 == conf \cup {IdOf(oi)}
       IN IF oi.origin = it.origin
          THEN IF oi.client > it.client
               THEN ScanLowerClientWins(seq, it, o + 1, o, {}, before2)
               ELSE left
          ELSE IF oi.origin # NoId /\ oi.origin \in before2
               THEN IF oi.origin \notin conf2
                    THEN ScanLowerClientWins(seq, it, o + 1, o, {}, before2)
                    ELSE ScanLowerClientWins(seq, it, o + 1, left, conf2, before2)
               ELSE left

\* Scan without the comparison of client ids: the incoming item always
\* passes its rivals.
RECURSIVE ScanIgnoreClient(_, _, _, _, _, _)
ScanIgnoreClient(seq, it, o, left, conf, before) ==
  IF o > Len(seq) THEN left
  ELSE LET oi == seq[o]
           before2 == before \cup {IdOf(oi)}
           conf2 == conf \cup {IdOf(oi)}
       IN IF oi.origin = it.origin
          THEN ScanIgnoreClient(seq, it, o + 1, o, {}, before2)
          ELSE IF oi.origin # NoId /\ oi.origin \in before2
               THEN IF oi.origin \notin conf2
                    THEN ScanIgnoreClient(seq, it, o + 1, o, {}, before2)
                    ELSE ScanIgnoreClient(seq, it, o + 1, left, conf2, before2)
               ELSE left

\* The conflict loop of Item.integrate: o walks right from the origin; the
\* result is the index of the item that becomes the left neighbour.
RECURSIVE Scan(_, _, _, _, _, _)
Scan(seq, it, o, left, conf, before) ==
  IF o > Len(seq) THEN left
  ELSE LET oi == seq[o]
           before2 == before \cup {IdOf(oi)}
           conf2 == conf \cup {IdOf(oi)}
       IN IF oi.origin = it.origin
          THEN IF oi.client < it.client
               THEN Scan(seq, it, o + 1, o, {}, before2)
               ELSE left
          ELSE IF oi.origin # NoId /\ oi.origin \in before2
               THEN IF oi.origin \notin conf2
                    THEN Scan(seq, it, o + 1, o, {}, before2)
                    ELSE Scan(seq, it, o + 1, left, conf2, before2)
               ELSE left

InsertAt(seq, i, x) == SubSeq(seq, 1, i) \o <<x>> \o SubSeq(seq, i + 1, Len(seq))

\* IntegrateInList that appends whatever arrives.
IntegrateAppend(seq, it) ==
  IF seq = <<>> THEN <<it>>
  ELSE [seq EXCEPT ![Len(seq)] = MarkDeleted(seq[Len(seq)])] \o <<it>>

\* Item.integrate for an item of the map: place it, then delete whichever
\* of {it, its left neighbour} is not the rightmost item of the key.
IntegrateInList(seq, it) ==
  LET l0 == IndexOfId(seq, it.origin)
      left == Scan(seq, it, l0 + 1, l0, {}, {})
  IN IF left = Len(seq)
     THEN IF left = 0 THEN <<it>>
          ELSE [seq EXCEPT ![left] = MarkDeleted(seq[left])] \o <<it>>
     ELSE InsertAt(seq, left, MarkDeleted(it))

Integrate(d, it) == [d EXCEPT !.lst[it.key] = IntegrateInList(d.lst[it.key], it)]

\* typeMapSet: a new item of the local client whose origin is the item that
\* currently holds the key.
TypeMapSet(d, c, k, e) ==
  LET seq == d.lst[k]
      origin == IF seq = <<>> THEN NoId ELSE IdOf(seq[Len(seq)])
  IN Integrate(d, [client |-> c, clock |-> getState(d, c), key |-> k,
                   origin |-> origin, val |-> e])

\* typeMapDelete: delete the item that currently holds the key.
TypeMapDelete(d, k) ==
  LET seq == d.lst[k]
  IN IF seq = <<>> THEN d
     ELSE [d EXCEPT !.lst[k][Len(seq)] = MarkDeleted(seq[Len(seq)])]

\* CRDTSync.set
CrdtSet(d, c, k, e) == TypeMapSet(d, c, k, e)

\* CRDTSync.remove: nothing is recorded for a key that is not visible.
CrdtRemove(d, k) == IF MapHas(d, k) THEN TypeMapDelete(d, k) ELSE d

\* CRDTSync.importEntries: one transaction that sets every given key.
RECURSIVE ImportEntries(_, _, _)
ImportEntries(d, c, data) ==
  IF DOMAIN data = {} THEN d
  ELSE LET k == CHOOSE x \in DOMAIN data : TRUE
       IN ImportEntries(CrdtSet(d, c, k, data[k]), c,
                        [x \in DOMAIN data \ {k} |-> data[x]])

DeletedIds(d) == {IdOf(it) : it \in {x \in ItemsOf(d) : x.val = Gone}}

\* EncodeStateAsUpdate that leaves the delete set out.
EncodeWithoutDeleteSet(d, sv) ==
  [structs |-> {it \in ItemsOf(d) \cup d.pend : it.clock >= sv[it.client]},
   ds |-> {}]

\* EncodeStateAsUpdate that starts one clock too late.
EncodeStrictlyAfter(d, sv) ==
  [structs |-> {it \in ItemsOf(d) \cup d.pend : it.clock > sv[it.client]},
   ds |-> DeletedIds(d) \cup d.pendDs]

\* Y.encodeStateAsUpdate(doc, sv): the items the state vector does not
\* cover, the whole delete set, and whatever is still pending.
EncodeStateAsUpdate(d, sv) ==
  [structs |-> {it \in ItemsOf(d) \cup d.pend : it.clock >= sv[it.client]},
   ds |-> DeletedIds(d) \cup d.pendDs]

\* getUpdatesSince that ignores the state vector and encodes the whole state.
getUpdatesSinceFull(d, sv) == EncodeStateAsUpdate(d, [c \in Replicas |-> 0])

\* CRDTSync.getUpdatesSince
getUpdatesSince(d, sv) == EncodeStateAsUpdate(d, sv)

ZeroSV == [c \in Replicas |-> 0]

\* CRDTSync.syncNow: Y.encodeStateAsUpdate(doc) with no state vector.
syncNow(d) == EncodeStateAsUpdate(d, ZeroSV)

\* IntegrateStructs that integrates again an item the store already has.
RECURSIVE IntegrateStructsAgain(_, _)
IntegrateStructsAgain(d, structs) ==
  LET ready == {it \in structs :
                  /\ it.clock <= getState(d, it.client)
                  /\ (it.origin = NoId \/ it.origin \in IdsOf(d))}
  IN IF ready = {}
     THEN [d EXCEPT !.pend = {it \in structs : it.clock >= getState(d, it.client)}]
     ELSE LET it == CHOOSE x \in ready : \A y \in ready : y.client <= x.client
          IN IntegrateStructsAgain(Integrate(d, it), structs \ {it})

\* IntegrateStructs that forgets the items it could not integrate.
RECURSIVE IntegrateStructsDropRest(_, _)
IntegrateStructsDropRest(d, structs) ==
  LET ready == {it \in structs :
                  /\ it.clock = getState(d, it.client)
                  /\ (it.origin = NoId \/ it.origin \in IdsOf(d))}
  IN IF ready = {}
     THEN [d EXCEPT !.pend = {}]
     ELSE LET it == CHOOSE x \in ready : \A y \in ready : y.client <= x.client
          IN IntegrateStructsDropRest(Integrate(d, it), structs \ {it})

\* integrateStructs: integrate every item whose predecessor of the same
\* client and whose origin are in the store; the rest stays pending.
RECURSIVE IntegrateStructs(_, _)
IntegrateStructs(d, structs) ==
  LET ready == {it \in structs :
                  /\ it.clock = getState(d, it.client)
                  /\ (it.origin = NoId \/ it.origin \in IdsOf(d))}
  IN IF ready = {}
     THEN [d EXCEPT !.pend = {it \in structs : it.clock >= getState(d, it.client)}]
     ELSE LET it == CHOOSE x \in ready : \A y \in ready : y.client <= x.client
          IN IntegrateStructs(Integrate(d, it), structs \ {it})

\* ApplyDeleteSet that treats the deletion of an unknown item as a no-op.
ApplyDeleteSetDropUnknown(d, ds) ==
  [d EXCEPT !.lst = [k \in Keys |->
                       [i \in 1..Len(d.lst[k]) |->
                          IF IdOf(d.lst[k][i]) \in ds
                          THEN MarkDeleted(d.lst[k][i]) ELSE d.lst[k][i]]],
            !.pendDs = {}]

\* readAndApplyDeleteSet: delete the items that are in the store, keep the
\* other ids as pending deletions.
ApplyDeleteSet(d, ds) ==
  [d EXCEPT !.lst = [k \in Keys |->
                       [i \in 1..Len(d.lst[k]) |->
                          IF IdOf(d.lst[k][i]) \in ds
                          THEN MarkDeleted(d.lst[k][i]) ELSE d.lst[k][i]]],
            !.pendDs = ds \ IdsOf(d)]

\* ApplyUpdateDoc that forgets the deletions it could not apply earlier.
ApplyUpdateForgetDs(d, u) ==
  ApplyDeleteSet(IntegrateStructs(d, u.structs \cup d.pend), u.ds)

\* Y.applyUpdate (CRDTSync.applyUpdate)
ApplyUpdateDoc(d, u) ==
  ApplyDeleteSet(IntegrateStructs(d, u.structs \cup d.pend), u.ds \cup d.pendDs)

\* What the replicated map shows: keys, entries and state vector.
View(d) == <<toJSON(d), getStateVector(d)>>

\* ---------------------------------------------------------------- YMapEvent
\* event.changes.keys of the transaction that took the doc from b to a.
ChangeAction(b, a, k) ==
  IF a.lst[k] = <<>> THEN "none"
  ELSE LET item == a.lst[k][Len(a.lst[k])]
           adds == IdOf(item) \notin IdsOf(b)
           prevLive == MapHas(b, k)
       IN IF adds
          THEN IF item.val = Gone
               THEN IF prevLive THEN "delete" ELSE "none"
               ELSE IF prevLive THEN "update" ELSE "add"
          ELSE IF item.val = Gone /\ prevLive THEN "delete" ELSE "none"

\* ---------------------------------------------------------------- storage
\* MemoryStorage: a map from key to StoredEntry.
StoragePut(s, k, e) == [s EXCEPT ![k] = e]

StorageDelete(s, k) == [s EXCEPT ![k] = Absent]

StorageHas(s, k) == s[k] # Absent

StorageKeys(s) == {k \in DOMAIN s : s[k] # Absent}

\* getAll builds a plain object by result[key] = {...entry}: the
\* assignment to the key "__proto__" sets the prototype of the object and
\* adds no property to it.
StorageGetAll(s) == [k \in StorageKeys(s) \ {"__proto__"} |-> s[k]]

\* importAll stores every own property (Object.entries) of the mapping.
StorageImportAll(s, entries) ==
  [k \in DOMAIN s |-> IF k \in DOMAIN entries THEN entries[k] ELSE s[k]]

\* VaultPutEntry that stores the JSON text of the value as it is.
VaultPutEntryPlain(s, k, v, key, iv, now) ==
  [encrypted |-> [ciphertext |-> <<"plain", v>>, iv |-> iv, authTag |-> <<"none">>],
   createdAt |-> IF s[k] # Absent THEN s[k].createdAt ELSE now,
   updatedAt |-> now,
   version |-> (IF s[k] # Absent THEN s[k].version ELSE 0) + 1]

\* VaultPutEntry that stamps createdAt anew on every put.
VaultPutEntryNewCreatedAt(s, k, v, key, iv, now) ==
  [encrypted |-> encrypt(v, key, iv),
   createdAt |-> now,
   updatedAt |-> now,
   version |-> (IF s[k] # Absent THEN s[k].version ELSE 0) + 1]

\* EncryptedVault.put: the entry it stores.
VaultPutEntry(s, k, v, key, iv, now) ==
  [encrypted |-> encrypt(v, key, iv),
   createdAt |-> IF s[k] # Absent THEN s[k].createdAt ELSE now,
   updatedAt |-> now,
   version |-> (IF s[k] # Absent THEN s[k].version ELSE 0) + 1]

\* syncedToStored that stamps a version of its own.
syncedToStoredBump(e) ==
  [encrypted |-> e.encrypted, createdAt |-> e.createdAt,
   updatedAt |-> e.updatedAt, version |-> e.version + 1]

\* SyncedVault.storedToSynced / syncedToStored copy the four fields.
storedToSynced(e) ==
  [encrypted |-> e.encrypted, createdAt |-> e.createdAt,
   updatedAt |-> e.updatedAt, version |-> e.version]

syncedToStored(e) ==
  [encrypted |-> e.encrypted, createdAt |-> e.createdAt,
   updatedAt |-> e.updatedAt, version |-> e.version]

\* applyRemoteEntry that writes the way EncryptedVault.put does: the version
\* is the stored one plus one and createdAt is kept.
applyRemoteEntryAsPut(s, k, e) ==
  StoragePut(s, k, [encrypted |-> e.encrypted,
                    createdAt |-> IF s[k] # Absent THEN s[k].createdAt ELSE e.createdAt,
                    updatedAt |-> e.updatedAt,
                    version |-> (IF s[k] # Absent THEN s[k].version ELSE 0) + 1])

\* SyncedVault.applyRemoteEntry: import, never put.
applyRemoteEntry(s, k, e) == StorageImportAll(s, [x \in {k} |-> syncedToStored(e)])

\* ObserverEffect that imports on "add" only.
ObserverEffectAddOnly(s, b, a, init) ==
  IF ~init THEN s
  ELSE [k \in Keys |->
          LET act == ChangeAction(b, a, k)
          IN IF act = "add"
             THEN IF MapGet(a, k) # Absent
                  THEN applyRemoteEntry(s, k, MapGet(a, k))[k] ELSE s[k]
             ELSE IF act = "delete" THEN Absent ELSE s[k]]

\* ObserverEffect that ignores the "delete" action.
ObserverEffectNoDelete(s, b, a, init) ==
  IF ~init THEN s
  ELSE [k \in Keys |->
          LET act == ChangeAction(b, a, k)
          IN IF act \in {"add", "update"} /\ MapGet(a, k) # Absent
             THEN applyRemoteEntry(s, k, MapGet(a, k))[k] ELSE s[k]]

\* The entries observer of SyncedVault.setupSync, run for the transaction
\* that took the doc from b to a.  vault.import and vault.delete reject
\* without touching storage when the vault is not initialized.
ObserverEffect(s, b, a, init) ==
  IF ~init THEN s
  ELSE [k \in Keys |->
          LET act == ChangeAction(b, a, k)
          IN IF act \in {"add", "update"}
             THEN IF MapGet(a, k) # Absent
                  THEN applyRemoteEntry(s, k, MapGet(a, k))[k] ELSE s[k]
             ELSE IF act = "delete" THEN Absent ELSE s[k]]

\* Storage of replica r after a transaction b -> a on its doc.
AfterTransaction(r, b, a) ==
  IF observing[r] THEN ObserverEffect(storage[r], b, a, initialized[r])
  ELSE storage[r]

\* ---------------------------------------------------------------- vault
KEY_LENGTH == 32

Null == [null |-> TRUE]

\* encryptionKey is null, or the place of a key buffer in the heap.
NoKey == 0
Undefined == [undefined |-> TRUE]
None == [none |-> TRUE]

\* config.storage.type
Backends == {"memory", "sqlite"}

\* Buffers a caller hands to initializeWithKey: 16, 32 and 64 bytes of "a".
CallerKeys == {[len |-> n, bytes |-> <<"caller", n>>] : n \in {16, 32, 64}}

\* Application values handed to put: a string, NaN and undefined.
VaultValues == {[t |-> "string", v |-> "a"], [t |-> "NaN", v |-> ""],
                [t |-> "undefined", v |-> ""]}

\* JSON.stringify: the JSON text of a value; NaN becomes the text null and
\* undefined has no text.
JSONStringify(v) ==
  IF v.t = "undefined" THEN Undefined
  ELSE IF v.t = "string" THEN [json |-> "string", v |-> v.v]
  ELSE [json |-> "null", v |-> ""]

\* JSON.parse of a text JSON.stringify produced.
JSONParse(text) ==
  IF text.json = "string" THEN [t |-> "string", v |-> text.v]
  ELSE [t |-> "null", v |-> ""]

\* clearKey: fill(0) keeps the length of the buffer.
clearKey(buf) == [len |-> buf.len, bytes |-> <<"zero", 0>>]

\* decrypt that releases the plaintext without verifying the tag.
decryptUnauthenticated(encrypted, key) ==
  [ok |-> TRUE, plaintext |-> encrypted.ciphertext[2]]

\* decrypt: the tag verifies only under the key and iv of the encryption.
decrypt(encrypted, key) ==
  IF /\ encrypted.ciphertext[3] = key
     /\ encrypted.ciphertext[4] = encrypted.iv
     /\ encrypted.authTag = <<"tag", encrypted.ciphertext[2], key, encrypted.iv>>
  THEN [ok |-> TRUE, plaintext |-> encrypted.ciphertext[2]]
  ELSE [ok |-> FALSE, plaintext |-> Null]

\* EncryptedVault.ensureInitialized: TRUE when it does not throw.
ensureInitialized == vInitialized /\ encryptionKey # NoKey

\* The bytes of the vault's key.
KeyBytes == heap[encryptionKey].bytes

\* An entry another vault encrypted, as import receives it.
ForeignEntry ==
  [encrypted |-> encrypt([json |-> "string", v |-> "b"], <<"other", 0>>, 0),
   createdAt |-> 0, updatedAt |-> 0, version |-> 5]

ImportData == {[k \in {"k1"} |-> ForeignEntry]}

\* MemoryStorage.clear / SQLiteStorage.clear
StorageClear(s) == [k \in DOMAIN s |-> Absent]

\* MemoryStorage.get
StorageGet(s, k) == IF s[k] = Absent THEN Undefined ELSE s[k]

\* ---------------------------------------------------------------- sqlite
\* The vault names of the SQLiteStorage instances that share a database.
VaultNames == {"v1", "v2"}

\* Entry keys handed to a storage backend.
EntryKeys == {"k1", "__proto__"}

\* StoredEntry values handed to a storage backend: one without a salt
\* (encrypted.salt reads undefined) and one with a salt.
StoredEntries ==
  {[encrypted |-> [ciphertext |-> "c1", iv |-> "iv1", authTag |-> "t1",
                   salt |-> "undefined"],
    createdAt |-> "d1", updatedAt |-> "d1", version |-> 1],
   [encrypted |-> [ciphertext |-> "c2", iv |-> "iv2", authTag |-> "t2",
                   salt |-> "s1"],
    createdAt |-> "d1", updatedAt |-> "d2", version |-> 2]}

\* The values SQLiteStorage.put binds to the columns of a row.
EntryToRow(e) ==
  [ciphertext |-> e.encrypted.ciphertext,
   iv |-> e.encrypted.iv,
   auth_tag |-> e.encrypted.authTag,
   salt |-> IF e.encrypted.salt = "undefined" THEN "NULL" ELSE e.encrypted.salt,
   created_at |-> e.createdAt,
   updated_at |-> e.updatedAt,
   version |-> e.version]

\* The StoredEntry SQLiteStorage.get and getAll build from a row.
RowToEntry(row) ==
  [encrypted |-> [ciphertext |-> row.ciphertext, iv |-> row.iv,
                  authTag |-> row.auth_tag,
                  salt |-> IF row.salt = "NULL" THEN "undefined" ELSE row.salt],
   createdAt |-> row.created_at,
   updatedAt |-> row.updated_at,
   version |-> row.version]

\* SQLiteStorage.get: SELECT ... WHERE vault_name = ? AND entry_key = ?
SqlGet(t, n, k) ==
  IF t[<<n, k>>] = Absent THEN Undefined ELSE RowToEntry(t[<<n, k>>])

\* SqlPut as INSERT OR IGNORE: an existing row is kept.
SqlPutIgnore(t, n, k, e) ==
  IF t[<<n, k>>] = Absent THEN [t EXCEPT ![<<n, k>>] = EntryToRow(e)] ELSE t

\* SQLiteStorage.put: INSERT OR REPLACE on the key (vault_name, entry_key).
SqlPut(t, n, k, e) == [t EXCEPT ![<<n, k>>] = EntryToRow(e)]

\* SQLiteStorage.delete, and whether it changed a row.
SqlDelete(t, n, k) == [t EXCEPT ![<<n, k>>] = Absent]

SqlHas(t, n, k) == t[<<n, k>>] # Absent

SqlKeys(t, n) == {k \in EntryKeys : SqlHas(t, n, k)}

\* SQLiteStorage.getAll: result[row.entry_key] = {...} on a plain object.
SqlGetAll(t, n) ==
  [k \in SqlKeys(t, n) \ {"__proto__"} |-> RowToEntry(t[<<n, k>>])]

\* SQLiteStorage.importAll: one transaction that puts every own property.
RECURSIVE SqlImportAll(_, _, _)
SqlImportAll(t, n, entries) ==
  IF DOMAIN entries = {} THEN t
  ELSE LET k == CHOOSE x \in DOMAIN entries : TRUE
       IN SqlImportAll(SqlPut(t, n, k, entries[k]), n,
                       [x \in DOMAIN entries \ {k} |-> entries[x]])

\* SqlClear that deletes the rows of every vault.
SqlClearAll(t, n) == [p \in DOMAIN t |-> Absent]

\* SQLiteStorage.clear: DELETE FROM vault_entries WHERE vault_name = ?
SqlClear(t, n) == [p \in DOMAIN t |-> IF p[1] = n THEN Absent ELSE t[p]]

\* What a call of MemoryStorage returns.
MemReturn(op, s, k) ==
  CASE op = "get" -> StorageGet(s, k)
    [] op = "delete" -> [value |-> StorageHas(s, k)]
    [] op = "keys" -> [value |-> StorageKeys(s)]
    [] op = "has" -> [value |-> StorageHas(s, k)]
    [] op = "getAll" -> [value |-> StorageGetAll(s)]
    [] OTHER -> Null

\* What a call of the SQLiteStorage of vault n returns.
SqlReturn(op, t, n, k) ==
  CASE op = "get" -> SqlGet(t, n, k)
    [] op = "delete" -> [value |-> SqlHas(t, n, k)]
    [] op = "keys" -> [value |-> SqlKeys(t, n)]
    [] op = "has" -> [value |-> SqlHas(t, n, k)]
    [] op = "getAll" -> [value |-> SqlGetAll(t, n)]
    [] OTHER -> Null

\* new MemoryStorage() and new SQLiteStorage({path, vaultName}) on a new
\* database file, for every vault name.
BackendConstructed ==
  /\ mem = [n \in VaultNames |-> [k \in EntryKeys |-> Absent]]
  /\ table = [p \in VaultNames \X EntryKeys |-> Absent]
  /\ held = [k \in {} |-> Absent]
  /\ bCalls = 0
  /\ bLast = [op |-> "new", inst |-> "", key |-> "", memRet |-> Null, sqlRet |-> Null]

\* new EncryptedVault(config): no key, not initialized, storage created.
VaultConstructed(b) ==
  /\ backend = b
  /\ vInitialized = FALSE
  /\ encryptionKey = NoKey
  /\ heap = <<>>
  /\ vData = [k \in Keys |-> Absent]
  /\ dbOpen = TRUE
  /\ calls = 0
  /\ last = [op |-> "new", key |-> "", err |-> "none", ret |-> Null]
  /\ destroyed = FALSE
  /\ putVersions = [k \in Keys |-> <<>>]
  /\ onlyPutDelete = TRUE
  /\ lastPut = [k \in Keys |-> None]

\* ---------------------------------------------------------------- store
\* Vault names a caller passes to the ContextStore.
Names == {"a", "b"}

\* vaults.get(name) when the map has no such key.
NoVault == 0

\* new ContextStore(): an empty vaults map.
StoreConstructed ==
  /\ registry = [n \in Names |-> [vault |-> NoVault, stamp |-> 0]]
  /\ stamps = 0
  /\ vaultObjs = <<>>
  /\ storeTasks = {}
  /\ storeCalls = 0
  /\ invoked = [op |-> "new", name |-> "", call |-> 0]
  /\ storeLast = [op |-> "new", name |-> "", call |-> 0, err |-> "none", ret |-> Null]

\* ---------------------------------------------------------------- engine
\* The client ids of the engine's doc and of the peer's doc.
Self == 1

Peer == 2

\* config.mode
Modes == {"manual", "periodic", "realtime"}

\* Functions a caller subscribes with onEvent; l2 calls syncNow() when it
\* hears an event of a running syncNow.
Listeners == {"l1", "l2"}

\* The keys the engine's callers and the peer use.
EngineKeys == {"k1"}

\* The origin a caller passes to applyUpdate.
Origins == {"remote", "undefined"}

\* new CRDTSync(config): status idle, no listener, no provider, no timer.
EventConstructed(m) ==
  /\ eDoc = EmptyDoc
  /\ peerDoc = EmptyDoc
  /\ status = "idle"
  /\ wsProvider = FALSE
  /\ mode = m
  /\ peers = IF m = "realtime" THEN 1 ELSE 0
  /\ syncInterval = FALSE
  /\ timers = 0
  /\ listeners = {}
  /\ handles = {}
  /\ running = "none"
  /\ pending = {}
  /\ emitted = <<>>
  /\ eLast = [op |-> "new", arg |-> ""]
  /\ eCalls = 0
  /\ synced = FALSE

\* ---------------------------------------------------------------- server
\* The encrypted blobs a client sends.
Blobs == {"x", "y"}

\* new UserStorage(dbPath) on a new database: empty tables, empty doc.
ServerConstructed ==
  /\ uDoc = [d \in Replicas |-> EmptyDoc]
  /\ uRows = [d \in Replicas |-> [k \in Keys |-> Absent]]
  /\ uSaved = [d \in Replicas |-> Absent]
  /\ uCalls = 0
  /\ uLast = [op |-> "new", dev |-> 0, key |-> ""]

\* ---------------------------------------------------------------- state
IdleTasks == [i \in 1..MaxTasks |-> Idle]

FreeSlots(r) == {i \in 1..MaxTasks : tasks[r][i] = Idle}

Quiet(r) == \A i \in 1..MaxTasks : tasks[r][i] = Idle

SyncInit ==
  /\ doc = [r \in Replicas |-> EmptyDoc]
  /\ storage = [r \in Replicas |-> [k \in Keys |-> Absent]]
  /\ initialized = [r \in Replicas |-> FALSE]
  /\ observing = [r \in Replicas |-> FALSE]
  /\ tasks = [r \in Replicas |-> IdleTasks]
  /\ net = {}
  /\ produced = {}
  /\ opsLeft = MaxOps

Init ==
  /\ SyncInit /\ VaultConstructed("memory")
  /\ StoreConstructed /\ BackendConstructed /\ EventConstructed("manual") /\ ServerConstructed

\* SyncedVault.initialize, up to the first await: EncryptedVault.initialize.
Initialize(r) ==
  /\ ~initialized[r]
  /\ \E i \in FreeSlots(r) :
       tasks' = [tasks EXCEPT ![r][i] = [op |-> "init", pc |-> "export"]]
  /\ initialized' = [initialized EXCEPT ![r] = TRUE]
  /\ UNCHANGED <<doc, storage, observing, net, produced, opsLeft>>
  /\ UNCHANGED outsideSync

\* setupSync: vault.export().
InitExport(r, i) ==
  /\ tasks[r][i].op = "init" /\ tasks[r][i].pc = "export"
  /\ tasks' = [tasks EXCEPT ![r][i] =
                 [op |-> "init", pc |-> "import", entries |-> StorageGetAll(storage[r])]]
  /\ UNCHANGED <<doc, storage, initialized, observing, net, produced, opsLeft>>
  /\ UNCHANGED outsideSync

\* setupSync: importEntries, then subscribe the entries observer.
InitImport(r, i) ==
  /\ tasks[r][i].op = "init" /\ tasks[r][i].pc = "import"
  /\ LET data == tasks[r][i].entries
     IN doc' = [doc EXCEPT ![r] =
                  ImportEntries(doc[r], r, [k \in DOMAIN data |-> storedToSynced(data[k])])]
  /\ observing' = [observing EXCEPT ![r] = TRUE]
  /\ tasks' = [tasks EXCEPT ![r][i] = Idle]
  /\ UNCHANGED <<storage, initialized, net, produced, opsLeft>>
  /\ UNCHANGED outsideSync

\* randomBytes(IV_LENGTH) and new Date(): a fresh iv for every encryption,
\* and a clock that moves with every operation.
Fresh == MaxOps - opsLeft + 1

\* SyncedVault.put, up to the first await: EncryptedVault.put.  The task
\* keeps what the put wrote (result).
Put(r, k, v) ==
  /\ initialized[r]
  /\ opsLeft > 0
  /\ LET e == VaultPutEntry(storage[r], k, v, generateKey(r), Fresh, Fresh)
     IN /\ storage' = [storage EXCEPT ![r] = StoragePut(storage[r], k, e)]
        /\ produced' = produced \cup {<<k, e>>}
        /\ \E i \in FreeSlots(r) :
             tasks' = [tasks EXCEPT ![r][i] =
                         [op |-> "put", pc |-> "export", key |-> k, wrote |-> e]]
  /\ opsLeft' = opsLeft - 1
  /\ UNCHANGED <<doc, initialized, observing, net>>
  /\ UNCHANGED outsideSync

\* SyncedVault.put: vault.export() and the lookup of the key in it.
PutExport(r, i) ==
  /\ tasks[r][i].op = "put" /\ tasks[r][i].pc = "export"
  /\ tasks' = [tasks EXCEPT ![r][i] =
                 [op |-> "put", pc |-> "set", key |-> tasks[r][i].key,
                  wrote |-> tasks[r][i].wrote,
                  stored |-> storage[r][tasks[r][i].key]]]
  /\ UNCHANGED <<doc, storage, initialized, observing, net, produced, opsLeft>>
  /\ UNCHANGED outsideSync

\* SyncedVault.put: sync.set of the exported entry, if there is one.
PutSet(r, i) ==
  /\ tasks[r][i].op = "put" /\ tasks[r][i].pc = "set"
  /\ LET t == tasks[r][i]
         after == IF t.stored # Absent
                  THEN CrdtSet(doc[r], r, t.key, storedToSynced(t.stored))
                  ELSE doc[r]
     IN /\ doc' = [doc EXCEPT ![r] = after]
        /\ storage' = [storage EXCEPT ![r] = AfterTransaction(r, doc[r], after)]
  /\ tasks' = [tasks EXCEPT ![r][i] = Idle]
  /\ UNCHANGED <<initialized, observing, net, produced, opsLeft>>
  /\ UNCHANGED outsideSync

\* SyncedVault.delete, up to the await: EncryptedVault.delete.
Delete(r, k) ==
  /\ initialized[r]
  /\ opsLeft > 0
  /\ storage' = [storage EXCEPT ![r] = StorageDelete(storage[r], k)]
  /\ IF StorageHas(storage[r], k)
     THEN /\ \E i \in FreeSlots(r) :
               tasks' = [tasks EXCEPT ![r][i] = [op |-> "delete", pc |-> "remove", key |-> k]]
          /\ opsLeft' = opsLeft - 1
     ELSE UNCHANGED <<tasks, opsLeft>>
  /\ UNCHANGED <<doc, initialized, observing, net, produced>>
  /\ UNCHANGED outsideSync

\* SyncedVault.delete: sync.remove when vault.delete returned true.
DeleteRemove(r, i) ==
  /\ tasks[r][i].op = "delete" /\ tasks[r][i].pc = "remove"
  /\ LET after == CrdtRemove(doc[r], tasks[r][i].key)
     IN /\ doc' = [doc EXCEPT ![r] = after]
        /\ storage' = [storage EXCEPT ![r] = AfterTransaction(r, doc[r], after)]
  /\ tasks' = [tasks EXCEPT ![r][i] = Idle]
  /\ UNCHANGED <<initialized, observing, net, produced, opsLeft>>
  /\ UNCHANGED outsideSync

\* State vectors a caller hands to getUpdatesSince of replica s: a
\* replica's own, the empty one (syncNow), or that of a peer that already
\* has all of s but its latest item.
TargetSVs(s) ==
  {getStateVector(doc[t]) : t \in Replicas} \cup {ZeroSV}
    \cup {[getStateVector(doc[s]) EXCEPT ![s] = IF @ > 0 THEN @ - 1 ELSE 0]}

\* SyncedVault.getUpdatesSince / syncNow: the delta goes on the wire.
GetUpdates(s, sv) ==
  /\ Cardinality(net) < MaxNet
  /\ net' = net \cup {getUpdatesSince(doc[s], sv)}
  /\ UNCHANGED <<doc, storage, initialized, observing, tasks, produced, opsLeft>>
  /\ UNCHANGED outsideSync

\* The wire loses a delta.
Drop(u) ==
  /\ net' = net \ {u}
  /\ UNCHANGED <<doc, storage, initialized, observing, tasks, produced, opsLeft>>
  /\ UNCHANGED outsideSync

\* SyncedVault.applyUpdate: the delta stays on the wire (it may be
\* delivered again, or to the other replica).
ApplyUpdate(r, u) ==
  /\ LET after == ApplyUpdateDoc(doc[r], u)
     IN /\ doc' = [doc EXCEPT ![r] = after]
        /\ storage' = [storage EXCEPT ![r] = AfterTransaction(r, doc[r], after)]
  /\ UNCHANGED <<initialized, observing, tasks, net, produced, opsLeft>>
  /\ UNCHANGED outsideSync

Next ==
  \/ \E r \in Replicas : Initialize(r)
  \/ \E r \in Replicas, i \in 1..MaxTasks : InitExport(r, i)
  \/ \E r \in Replicas, i \in 1..MaxTasks : InitImport(r, i)
  \/ \E r \in Replicas, k \in Keys, v \in Values : Put(r, k, v)
  \/ \E r \in Replicas, i \in 1..MaxTasks : PutExport(r, i)
  \/ \E r \in Replicas, i \in 1..MaxTasks : PutSet(r, i)
  \/ \E r \in Replicas, k \in Keys : Delete(r, k)
  \/ \E r \in Replicas, i \in 1..MaxTasks : DeleteRemove(r, i)
  \/ \E s \in Replicas : \E sv \in TargetSVs(s) : GetUpdates(s, sv)
  \/ \E u \in net : Drop(u)
  \/ \E r \in Replicas : \E u \in net : ApplyUpdate(r, u)

Spec == Init /\ [][Next]_vars

\* ---------------------------------------------------------------- vault calls
\* One call of the vault's caller: the outcome is what the promise settles
\* with (err is "none" when it resolves).
Called(op, k, err, ret) ==
  /\ calls' = calls + 1
  /\ last' = [op |-> op, key |-> k, err |-> err, ret |-> ret]

\* A statement of better-sqlite3 run on a closed connection throws.
StorageThrows == backend = "sqlite" /\ ~dbOpen

NoPuts == [k \in Keys |-> None]

\* A key buffer of KEY_LENGTH bytes is allocated and becomes the vault's key.
SetKey(bytes) ==
  /\ heap' = Append(heap, [len |-> KEY_LENGTH, bytes |-> bytes])
  /\ encryptionKey' = Len(heap) + 1
  /\ vInitialized' = TRUE
  /\ lastPut' = NoPuts

\* EncryptedVault.initialize: generateKey().
VaultInitialize ==
  /\ calls < MaxCalls
  /\ SetKey(<<"rand", calls + 1>>)
  /\ Called("initialize", "", "none", Null)
  /\ UNCHANGED <<backend, vData, dbOpen, destroyed, putVersions, onlyPutDelete>>
  /\ UNCHANGED outsideVault

\* EncryptedVault.initializeWithPassword: deriveKey(password) draws a salt.
VaultInitializeWithPassword ==
  /\ calls < MaxCalls
  /\ SetKey(<<"pbkdf2", calls + 1>>)
  /\ Called("initializeWithPassword", "", "none", Null)
  /\ UNCHANGED <<backend, vData, dbOpen, destroyed, putVersions, onlyPutDelete>>
  /\ UNCHANGED outsideVault

\* VaultInitializeWithKey without the length check.
VaultInitializeWithKeyNoCheck(key) ==
  /\ calls < MaxCalls
  /\ heap' = Append(heap, [len |-> key.len, bytes |-> key.bytes])
  /\ encryptionKey' = Len(heap) + 1
  /\ vInitialized' = TRUE
  /\ lastPut' = NoPuts
  /\ Called("initializeWithKey", "", "none", Null)
  /\ UNCHANGED <<backend, vData, dbOpen, destroyed, putVersions, onlyPutDelete>>
  /\ UNCHANGED outsideVault

\* EncryptedVault.initializeWithKey: the key is copied (Buffer.from).
VaultInitializeWithKey(key) ==
  /\ calls < MaxCalls
  /\ IF key.len # 32
     THEN /\ Called("initializeWithKey", "", "InvalidKeyLength", Null)
          /\ UNCHANGED <<heap, encryptionKey, vInitialized, lastPut>>
     ELSE /\ SetKey(key.bytes)
          /\ Called("initializeWithKey", "", "none", Null)
  /\ UNCHANGED <<backend, vData, dbOpen, destroyed, putVersions, onlyPutDelete>>
  /\ UNCHANGED outsideVault

\* A call that rejects and changes nothing.
Rejects(op, k, err) ==
  /\ Called(op, k, err, Null)
  /\ UNCHANGED <<backend, vInitialized, encryptionKey, heap, vData, dbOpen,
                 destroyed, putVersions, onlyPutDelete, lastPut>>

\* EncryptedVault.put
VaultPut(k, v) ==
  /\ calls < MaxCalls
  /\ IF ~ensureInitialized THEN Rejects("put", k, "NotInitialized")
     ELSE IF StorageThrows THEN Rejects("put", k, "DatabaseClosed")
     ELSE IF JSONStringify(v) = Undefined THEN Rejects("put", k, "TypeError")
     ELSE LET e == VaultPutEntry(vData, k, JSONStringify(v), KeyBytes,
                                 calls + 1, calls + 1)
          IN /\ vData' = StoragePut(vData, k, e)
             /\ putVersions' = [putVersions EXCEPT ![k] = Append(@, e.version)]
             /\ lastPut' = [lastPut EXCEPT ![k] = [value |-> v, version |-> e.version]]
             /\ Called("put", k, "none",
                       [id |-> k, data |-> v, createdAt |-> e.createdAt,
                        updatedAt |-> e.updatedAt, version |-> e.version])
             /\ UNCHANGED <<backend, vInitialized, encryptionKey, heap, dbOpen,
                            destroyed, onlyPutDelete>>
  /\ UNCHANGED outsideVault

\* VaultGetResult that returns the decrypted text without JSON.parse.
VaultGetResultNoParse(k) ==
  IF ~ensureInitialized THEN [err |-> "NotInitialized", ret |-> Null]
  ELSE IF StorageThrows THEN [err |-> "DatabaseClosed", ret |-> Null]
  ELSE IF vData[k] = Absent THEN [err |-> "none", ret |-> Undefined]
  ELSE LET d == decrypt(vData[k].encrypted, KeyBytes)
       IN IF ~d.ok THEN [err |-> "AuthenticationFailure", ret |-> Null]
          ELSE [err |-> "none",
                ret |-> [id |-> k, data |-> d.plaintext,
                         createdAt |-> vData[k].createdAt,
                         updatedAt |-> vData[k].updatedAt,
                         version |-> vData[k].version]]

\* What EncryptedVault.get(k) settles with in the current state.
VaultGetResult(k) ==
  IF ~ensureInitialized THEN [err |-> "NotInitialized", ret |-> Null]
  ELSE IF StorageThrows THEN [err |-> "DatabaseClosed", ret |-> Null]
  ELSE IF vData[k] = Absent THEN [err |-> "none", ret |-> Undefined]
  ELSE LET d == decrypt(vData[k].encrypted, KeyBytes)
       IN IF ~d.ok THEN [err |-> "AuthenticationFailure", ret |-> Null]
          ELSE [err |-> "none",
                ret |-> [id |-> k, data |-> JSONParse(d.plaintext),
                         createdAt |-> vData[k].createdAt,
                         updatedAt |-> vData[k].updatedAt,
                         version |-> vData[k].version]]

\* EncryptedVault.get
VaultGet(k) ==
  /\ calls < MaxCalls
  /\ Called("get", k, VaultGetResult(k).err, VaultGetResult(k).ret)
  /\ UNCHANGED <<backend, vInitialized, encryptionKey, heap, vData, dbOpen,
                 destroyed, putVersions, onlyPutDelete, lastPut>>
  /\ UNCHANGED outsideVault

\* VaultDelete without ensureInitialized.
VaultDeleteUnguarded(k) ==
  /\ calls < MaxCalls
  /\ IF StorageThrows THEN Rejects("delete", k, "DatabaseClosed")
     ELSE /\ vData' = StorageDelete(vData, k)
          /\ lastPut' = [lastPut EXCEPT ![k] = None]
          /\ Called("delete", k, "none", [value |-> StorageHas(vData, k)])
          /\ UNCHANGED <<backend, vInitialized, encryptionKey, heap, dbOpen,
                         destroyed, putVersions, onlyPutDelete>>
  /\ UNCHANGED outsideVault

\* EncryptedVault.delete
VaultDelete(k) ==
  /\ calls < MaxCalls
  /\ IF ~ensureInitialized THEN Rejects("delete", k, "NotInitialized")
     ELSE IF StorageThrows THEN Rejects("delete", k, "DatabaseClosed")
     ELSE /\ vData' = StorageDelete(vData, k)
          /\ lastPut' = [lastPut EXCEPT ![k] = None]
          /\ Called("delete", k, "none", [value |-> StorageHas(vData, k)])
          /\ UNCHANGED <<backend, vInitialized, encryptionKey, heap, dbOpen,
                         destroyed, putVersions, onlyPutDelete>>
  /\ UNCHANGED outsideVault

\* A call that reads storage and changes nothing.
Reads(op, k, ret) ==
  IF ~ensureInitialized THEN Rejects(op, k, "NotInitialized")
  ELSE IF StorageThrows THEN Rejects(op, k, "DatabaseClosed")
  ELSE /\ Called(op, k, "none", ret)
       /\ UNCHANGED <<backend, vInitialized, encryptionKey, heap, vData, dbOpen,
                      destroyed, putVersions, onlyPutDelete, lastPut>>

\* EncryptedVault.keys
VaultKeys ==
  /\ calls < MaxCalls
  /\ Reads("keys", "", [value |-> StorageKeys(vData)])
  /\ UNCHANGED outsideVault

\* EncryptedVault.has
VaultHas(k) ==
  /\ calls < MaxCalls
  /\ Reads("has", k, [value |-> StorageHas(vData, k)])
  /\ UNCHANGED outsideVault

\* EncryptedVault.export
VaultExport ==
  /\ calls < MaxCalls
  /\ Reads("export", "", [value |-> StorageGetAll(vData)])
  /\ UNCHANGED outsideVault

\* EncryptedVault.import
VaultImport(data) ==
  /\ calls < MaxCalls
  /\ IF ~ensureInitialized THEN Rejects("import", "", "NotInitialized")
     ELSE IF StorageThrows THEN Rejects("import", "", "DatabaseClosed")
     ELSE /\ vData' = StorageImportAll(vData, data)
          /\ lastPut' = [k \in Keys |-> IF k \in DOMAIN data THEN None ELSE lastPut[k]]
          /\ onlyPutDelete' = FALSE
          /\ Called("import", "", "none", Null)
          /\ UNCHANGED <<backend, vInitialized, encryptionKey, heap, dbOpen,
                         destroyed, putVersions>>
  /\ UNCHANGED outsideVault

\* VaultDestroy that drops the key without clearKey.
VaultDestroyNoZero ==
  /\ calls < MaxCalls
  /\ heap' = heap
  /\ encryptionKey' = NoKey
  /\ IF backend = "memory"
     THEN vData' = StorageClear(vData) /\ dbOpen' = dbOpen
     ELSE vData' = vData /\ dbOpen' = FALSE
  /\ vInitialized' = FALSE
  /\ destroyed' = TRUE
  /\ onlyPutDelete' = FALSE
  /\ lastPut' = NoPuts
  /\ Called("destroy", "", "none", Null)
  /\ UNCHANGED <<backend, putVersions>>
  /\ UNCHANGED outsideVault

\* EncryptedVault.destroy: clearKey, drop the key, storage.close();
\* MemoryStorage.close clears the map, SQLiteStorage.close closes the
\* connection and leaves the rows in the file.
VaultDestroy ==
  /\ calls < MaxCalls
  /\ heap' = IF encryptionKey # NoKey
             THEN [heap EXCEPT ![encryptionKey] = clearKey(@)] ELSE heap
  /\ encryptionKey' = NoKey
  /\ IF backend = "memory"
     THEN vData' = StorageClear(vData) /\ dbOpen' = dbOpen
     ELSE vData' = vData /\ dbOpen' = FALSE
  /\ vInitialized' = FALSE
  /\ destroyed' = TRUE
  /\ onlyPutDelete' = FALSE
  /\ lastPut' = NoPuts
  /\ Called("destroy", "", "none", Null)
  /\ UNCHANGED <<backend, putVersions>>
  /\ UNCHANGED outsideVault

VaultInit ==
  /\ SyncInit /\ StoreConstructed /\ BackendConstructed
  /\ EventConstructed("manual") /\ ServerConstructed
  /\ \E b \in Backends : VaultConstructed(b)

VaultNext ==
  \/ VaultInitialize
  \/ VaultInitializeWithPassword
  \/ \E key \in CallerKeys : VaultInitializeWithKey(key)
  \/ \E k \in Keys, v \in VaultValues : VaultPut(k, v)
  \/ \E k \in Keys : VaultGet(k)
  \/ \E k \in Keys : VaultDelete(k)
  \/ VaultKeys
  \/ \E k \in Keys : VaultHas(k)
  \/ VaultExport
  \/ \E data \in ImportData : VaultImport(data)
  \/ VaultDestroy

VaultSpec == VaultInit /\ [][VaultNext]_vars

\* ---------------------------------------------------------------- store calls
\* A caller invokes a method of the store.
Invoke(op, n) ==
  /\ storeCalls < MaxStoreCalls
  /\ storeCalls' = storeCalls + 1
  /\ invoked' = [op |-> op, name |-> n, call |-> storeCalls + 1]

\* The promise of call c settles (err is "none" when it resolves).
Settle(op, n, c, err, ret) ==
  storeLast' = [op |-> op, name |-> n, call |-> c, err |-> err, ret |-> ret]

\* vaults.has(name)
HasVault(n) == registry[n].vault # NoVault

\* ContextStore.listVaults: Array.from(vaults.keys()).
ListVaults == {n \in Names : HasVault(n)}

\* new EncryptedVault({name, ...}) followed by initialize().
NewVault(n) == [name |-> n, initialized |-> TRUE, hasKey |-> TRUE, destroyed |-> FALSE]

\* EncryptedVault.destroy on vault object v.
Destroyed(objs, v) ==
  [objs EXCEPT ![v] = [@ EXCEPT !.initialized = FALSE, !.hasKey = FALSE,
                                !.destroyed = TRUE]]

\* vaults.clear()
NoEntries == [n \in Names |-> [vault |-> NoVault, stamp |-> 0]]

\* The entry a Map iterator yields after the entry inserted at place `at`.
EntriesAfter(at) == {n \in Names : HasVault(n) /\ registry[n].stamp > at}

FirstAfter(at) ==
  CHOOSE n \in EntriesAfter(at) :
    \A m \in EntriesAfter(at) : registry[n].stamp <= registry[m].stamp

\* CreateVault without the existence check.
CreateVaultNoCheck(n) ==
  /\ Invoke("createVault", n)
  /\ vaultObjs' = Append(vaultObjs, NewVault(n))
  /\ storeTasks' = storeTasks \cup
       {[op |-> "createVault", name |-> n, call |-> storeCalls + 1,
         vault |-> Len(vaultObjs) + 1, at |-> 0]}
  /\ UNCHANGED <<registry, stamps, storeLast>>
  /\ UNCHANGED outsideStore

\* ContextStore.createVault up to its await: the existence check, the
\* construction of the vault and vault.initialize().
CreateVault(n) ==
  /\ Invoke("createVault", n)
  /\ IF HasVault(n)
     THEN /\ Settle("createVault", n, storeCalls + 1, "VaultExists", Null)
          /\ UNCHANGED <<registry, stamps, vaultObjs, storeTasks>>
     ELSE /\ vaultObjs' = Append(vaultObjs, NewVault(n))
          /\ storeTasks' = storeTasks \cup
               {[op |-> "createVault", name |-> n, call |-> storeCalls + 1,
                 vault |-> Len(vaultObjs) + 1, at |-> 0]}
          /\ UNCHANGED <<registry, stamps, storeLast>>
  /\ UNCHANGED outsideStore

\* ContextStore.createVault after its await: vaults.set(name, vault) (a new
\* key goes to the end of the map, an existing key keeps its place) and
\* the vault is returned.
CreateVaultRegister(t) ==
  /\ t.op = "createVault"
  /\ registry' = [registry EXCEPT ![t.name] =
                    [vault |-> t.vault,
                     stamp |-> IF HasVault(t.name) THEN @.stamp ELSE stamps + 1]]
  /\ stamps' = IF HasVault(t.name) THEN stamps ELSE stamps + 1
  /\ storeTasks' = storeTasks \ {t}
  /\ Settle("createVault", t.name, t.call, "none", [vault |-> t.vault])
  /\ UNCHANGED <<vaultObjs, storeCalls, invoked>>
  /\ UNCHANGED outsideStore

\* ContextStore.getVault
GetVault(n) ==
  /\ Invoke("getVault", n)
  /\ Settle("getVault", n, storeCalls + 1, "none", [vault |-> registry[n].vault])
  /\ UNCHANGED <<registry, stamps, vaultObjs, storeTasks>>
  /\ UNCHANGED outsideStore

\* ContextStore.listVaults
ListVaultsCall ==
  /\ Invoke("listVaults", "")
  /\ Settle("listVaults", "", storeCalls + 1, "none", [names |-> ListVaults])
  /\ UNCHANGED <<registry, stamps, vaultObjs, storeTasks>>
  /\ UNCHANGED outsideStore

\* ContextStore.deleteVault up to its await: the lookup and vault.destroy().
DeleteVault(n) ==
  /\ Invoke("deleteVault", n)
  /\ IF ~HasVault(n)
     THEN /\ Settle("deleteVault", n, storeCalls + 1, "none", [value |-> FALSE])
          /\ UNCHANGED <<registry, stamps, vaultObjs, storeTasks>>
     ELSE /\ vaultObjs' = Destroyed(vaultObjs, registry[n].vault)
          /\ storeTasks' = storeTasks \cup
               {[op |-> "deleteVault", name |-> n, call |-> storeCalls + 1,
                 vault |-> registry[n].vault, at |-> 0]}
          /\ UNCHANGED <<registry, stamps, storeLast>>
  /\ UNCHANGED outsideStore

\* ContextStore.deleteVault after its await: vaults.delete(name).
DeleteVaultRemove(t) ==
  /\ t.op = "deleteVault"
  /\ registry' = [registry EXCEPT ![t.name] = [vault |-> NoVault, stamp |-> 0]]
  /\ storeTasks' = storeTasks \ {t}
  /\ Settle("deleteVault", t.name, t.call, "none", [value |-> TRUE])
  /\ UNCHANGED <<stamps, vaultObjs, storeCalls, invoked>>
  /\ UNCHANGED outsideStore

\* One turn of the loop of ContextStore.close for call c, whose iterator
\* stands after place `at`: destroy the next vault and suspend, or clear
\* the map and return when the iterator is done.
CloseTurn(c, at) ==
  IF EntriesAfter(at) = {}
  THEN /\ registry' = NoEntries
       /\ storeTasks' = {t \in storeTasks : t.call # c}
       /\ Settle("close", "", c, "none", Null)
       /\ UNCHANGED <<stamps, vaultObjs>>
  ELSE LET n == FirstAfter(at)
       IN /\ vaultObjs' = Destroyed(vaultObjs, registry[n].vault)
          /\ storeTasks' = {t \in storeTasks : t.call # c} \cup
               {[op |-> "close", name |-> "", call |-> c,
                 vault |-> registry[n].vault, at |-> registry[n].stamp]}
          /\ UNCHANGED <<registry, stamps, storeLast>>

\* ContextStore.close up to its first await.
Close ==
  /\ Invoke("close", "")
  /\ CloseTurn(storeCalls + 1, 0)
  /\ UNCHANGED outsideStore

\* ContextStore.close after an await.
CloseNext(t) ==
  /\ t.op = "close"
  /\ CloseTurn(t.call, t.at)
  /\ UNCHANGED <<storeCalls, invoked>>
  /\ UNCHANGED outsideStore

StoreInit ==
  /\ SyncInit /\ VaultConstructed("memory")
  /\ StoreConstructed /\ BackendConstructed /\ EventConstructed("manual") /\ ServerConstructed

StoreNext ==
  \/ \E n \in Names : CreateVault(n)
  \/ \E t \in storeTasks : CreateVaultRegister(t)
  \/ \E n \in Names : GetVault(n)
  \/ ListVaultsCall
  \/ \E n \in Names : DeleteVault(n)
  \/ \E t \in storeTasks : DeleteVaultRemove(t)
  \/ Close
  \/ \E t \in storeTasks : CloseNext(t)

StoreSpec == StoreInit /\ [][StoreNext]_vars

\* ---------------------------------------------------------------- backend calls
\* One call made to the MemoryStorage and to the SQLiteStorage of vault n.
BackendCall(op, n, k, memAfter, tableAfter, heldAfter) ==
  /\ bCalls < MaxBackendCalls
  /\ bCalls' = bCalls + 1
  /\ mem' = [mem EXCEPT ![n] = memAfter]
  /\ table' = tableAfter
  /\ held' = heldAfter
  /\ bLast' = [op |-> op, inst |-> n, key |-> k,
               memRet |-> MemReturn(op, mem[n], k),
               sqlRet |-> SqlReturn(op, table, n, k)]
  /\ UNCHANGED outsideBackend

BackendGet(n, k) == BackendCall("get", n, k, mem[n], table, held)

BackendPut(n, k, e) ==
  BackendCall("put", n, k, StoragePut(mem[n], k, e), SqlPut(table, n, k, e), held)

BackendDelete(n, k) ==
  BackendCall("delete", n, k, StorageDelete(mem[n], k), SqlDelete(table, n, k), held)

BackendKeys(n) == BackendCall("keys", n, "", mem[n], table, held)

BackendHas(n, k) == BackendCall("has", n, k, mem[n], table, held)

\* getAll: the caller keeps the mapping the durable backend exported.
BackendGetAll(n) ==
  BackendCall("getAll", n, "", mem[n], table, SqlGetAll(table, n))

\* Mappings a caller hands to importAll: one of its own, or the one it
\* holds from its latest getAll.
ImportMappings ==
  {[k \in {"k1"} |-> e] : e \in {x \in StoredEntries : x.version = 2}} \cup {held}

BackendImportAll(n, entries) ==
  BackendCall("importAll", n, "", StorageImportAll(mem[n], entries),
              SqlImportAll(table, n, entries), held)

BackendClear(n) ==
  BackendCall("clear", n, "", StorageClear(mem[n]), SqlClear(table, n), held)

BackendInit ==
  /\ SyncInit /\ VaultConstructed("memory")
  /\ StoreConstructed /\ BackendConstructed /\ EventConstructed("manual") /\ ServerConstructed

BackendNext ==
  \/ \E n \in VaultNames, k \in EntryKeys : BackendGet(n, k)
  \/ \E n \in VaultNames, k \in EntryKeys, e \in StoredEntries : BackendPut(n, k, e)
  \/ \E n \in VaultNames, k \in EntryKeys : BackendDelete(n, k)
  \/ \E n \in VaultNames : BackendKeys(n)
  \/ \E n \in VaultNames, k \in EntryKeys : BackendHas(n, k)
  \/ \E n \in VaultNames : BackendGetAll(n)
  \/ \E n \in VaultNames, entries \in ImportMappings : BackendImportAll(n, entries)
  \/ \E n \in VaultNames : BackendClear(n)

BackendSpec == BackendInit /\ [][BackendNext]_vars

\* ---------------------------------------------------------------- engine calls
\* CRDTSync.emit: the event goes to every listener in the set.
Ev(type, st) == [type |-> type, to |-> listeners, status |-> st]

\* A transaction has content for an 'update' message when it added an item
\* or deleted one.
DocChanged(b, a) ==
  \/ getStateVector(a) # getStateVector(b)
  \/ DeletedIds(a) # DeletedIds(b)

\* UpdateHandler that does not look at the origin.
UpdateHandlerAnyOrigin(origin, b, a) ==
  IF DocChanged(b, a) THEN <<Ev("update", status)>> ELSE <<>>

\* The handler of doc.on("update") registered by the constructor: what it
\* emits for the transaction that took the doc from b to a.
UpdateHandler(origin, b, a) ==
  IF DocChanged(b, a) /\ origin # "this" THEN <<Ev("update", status)>> ELSE <<>>

\* An entry handed to set and importEntries.
EventEntry(n) ==
  [encrypted |-> encrypt("v1", 0, n), createdAt |-> n, updatedAt |-> n, version |-> 1]

\* A caller calls a method of the engine (no syncNow is executing).
EngineCall(op, arg) ==
  /\ eCalls < MaxEventCalls
  /\ running = "none"
  /\ eCalls' = eCalls + 1
  /\ eLast' = [op |-> op, arg |-> arg]

\* CRDTSync.onEvent
OnEvent(l) ==
  /\ EngineCall("onEvent", l)
  /\ listeners' = listeners \cup {l}
  /\ handles' = handles \cup {l}
  /\ emitted' = <<>>
  /\ UNCHANGED <<eDoc, peerDoc, status, wsProvider, mode, peers,
                 syncInterval, timers, running, pending>>
  /\ UNCHANGED synced
  /\ UNCHANGED outsideEvent

\* The function onEvent returned for l.
Unsubscribe(l) ==
  /\ l \in handles
  /\ EngineCall("unsubscribe", l)
  /\ listeners' = listeners \ {l}
  /\ emitted' = <<>>
  /\ UNCHANGED <<eDoc, peerDoc, status, wsProvider, mode, peers,
                 syncInterval, timers, handles, running, pending>>
  /\ UNCHANGED synced
  /\ UNCHANGED outsideEvent

\* A transaction on the engine's doc with the given origin.
Transact(op, origin, after) ==
  /\ EngineCall(op, origin)
  /\ eDoc' = after
  /\ emitted' = UpdateHandler(origin, eDoc, after)
  /\ UNCHANGED <<peerDoc, status, wsProvider, mode, peers, syncInterval,
                 timers, listeners, handles, running, pending>>
  /\ UNCHANGED synced
  /\ UNCHANGED outsideEvent

\* CRDTSync.set
EngineSet(k) ==
  Transact("set", "this", CrdtSet(eDoc, Self, k, EventEntry(eCalls + 1)))

\* CRDTSync.remove
EngineRemove(k) ==
  Transact("remove", "this", CrdtRemove(eDoc, k))

\* CRDTSync.importEntries
EngineImportEntries(k) ==
  Transact("importEntries", "this",
           ImportEntries(eDoc, Self, [x \in {k} |-> EventEntry(eCalls + 1)]))

\* The peer calls set or remove of its own engine.
PeerCall(op, after) ==
  /\ EngineCall(op, "peer")
  /\ peerDoc' = after
  /\ emitted' = <<>>
  /\ UNCHANGED <<eDoc, status, wsProvider, mode, peers, syncInterval, timers,
                 listeners, handles, running, pending>>
  /\ UNCHANGED synced
  /\ UNCHANGED outsideEvent

PeerSet(k) == PeerCall("peerSet", CrdtSet(peerDoc, Peer, k, EventEntry(eCalls + 1)))

PeerRemove(k) ==
  /\ MapHas(peerDoc, k)
  /\ PeerCall("peerRemove", CrdtRemove(peerDoc, k))

\* The deltas of the peer that reach the engine: for the engine's state
\* vector, the peer's whole state, and one that skips an item of the peer.
PeerUpdates ==
  {EncodeStateAsUpdate(peerDoc, sv) :
     sv \in {getStateVector(eDoc), ZeroSV,
             [getStateVector(eDoc) EXCEPT ![Peer] = @ + 1]}}

\* CRDTSync.applyUpdate(update, origin)
EngineApplyUpdate(u, origin) ==
  Transact("applyUpdate", origin, ApplyUpdateDoc(eDoc, u))

\* syncNow up to the emission of sync_start; a call that finds the status
\* "syncing" returns the encoded state at once.
SyncNowBegin(caller) ==
  /\ EngineCall("syncNow", caller)
  /\ IF status = "syncing"
     THEN /\ emitted' = <<>>
          /\ UNCHANGED <<status, running>>
     ELSE /\ status' = "syncing"
          /\ emitted' = <<Ev("sync_start", "syncing")>>
          /\ running' = "started"
  /\ UNCHANGED <<eDoc, peerDoc, wsProvider, mode, peers, syncInterval,
                 timers, listeners, handles, pending>>
  /\ UNCHANGED synced
  /\ UNCHANGED outsideEvent

\* CRDTSync.syncNow called by the application.
SyncNow == SyncNowBegin("app")

\* The callback of setInterval calls syncNow.
TimerTick ==
  /\ timers > 0
  /\ SyncNowBegin("timer")

\* Listener l, while it handles an event of the running syncNow, calls
\* syncNow(): the status is "syncing", so the call returns the encoded
\* state and emits nothing.
ReenterSyncNow(l) ==
  /\ running # "none"
  /\ emitted # <<>>
  /\ l = "l2" /\ l \in emitted[Len(emitted)].to
  /\ eCalls < MaxEventCalls
  /\ eCalls' = eCalls + 1
  /\ eLast' = [op |-> "syncNow", arg |-> "reentrant"]
  /\ IF status = "syncing"
     THEN /\ emitted' = <<>>
          /\ UNCHANGED status
     ELSE /\ status' = "syncing"
          /\ emitted' = <<Ev("sync_start", "syncing")>>
  /\ UNCHANGED <<eDoc, peerDoc, wsProvider, mode, peers, syncInterval,
                 timers, listeners, handles, running, pending>>
  /\ UNCHANGED synced
  /\ UNCHANGED outsideEvent

\* syncNow: Y.encodeStateAsUpdate and the emission of sync_complete.
SyncNowEncode ==
  /\ running = "started"
  /\ running' = "completed"
  /\ emitted' = <<Ev("sync_complete", status)>>
  /\ UNCHANGED <<eDoc, peerDoc, status, wsProvider, mode, peers,
                 syncInterval, timers, listeners, handles, pending, eLast, eCalls>>
  /\ UNCHANGED synced
  /\ UNCHANGED outsideEvent

\* Listener l throws while it handles the sync_start of syncNow: emit is
\* called before the try block, so the call ends with the exception and the
\* finally block does not run.  The interval callback catches the rejection
\* and emits sync_error.
SyncStartThrows(l) ==
  /\ running = "started"
  /\ Len(emitted) = 1 /\ emitted[1].type = "sync_start"
  /\ l = "l2" /\ l \in emitted[1].to
  /\ running' = "none"
  /\ emitted' = IF eLast.arg = "timer" THEN <<Ev("sync_error", status)>> ELSE <<>>
  /\ eLast' = [op |-> "syncNow", arg |-> "threw"]
  /\ UNCHANGED <<eDoc, peerDoc, status, wsProvider, mode, peers, syncInterval,
                 timers, listeners, handles, pending, eCalls>>
  /\ UNCHANGED synced
  /\ UNCHANGED outsideEvent

\* Listener l throws while it handles sync_complete: the catch block emits
\* sync_error and throws the error on.
SyncCompleteThrows(l) ==
  /\ running = "completed"
  /\ Len(emitted) = 1 /\ emitted[1].type = "sync_complete"
  /\ l = "l2" /\ l \in emitted[1].to
  /\ running' = "failed"
  /\ emitted' = <<Ev("sync_error", status)>>
  /\ UNCHANGED <<eDoc, peerDoc, status, wsProvider, mode, peers, syncInterval,
                 timers, listeners, handles, pending, eLast, eCalls>>
  /\ UNCHANGED synced
  /\ UNCHANGED outsideEvent

\* syncNow: the finally block, and the return of the update or the
\* rejection with the error.
SyncNowReturn ==
  /\ running \in {"completed", "failed"}
  /\ running' = "none"
  /\ status' = IF wsProvider THEN "connected" ELSE "idle"
  /\ emitted' = <<>>
  /\ eLast' = [op |-> "syncNow",
               arg |-> IF running = "failed" THEN "rejected" ELSE "returned"]
  /\ UNCHANGED <<eDoc, peerDoc, wsProvider, mode, peers, syncInterval,
                 timers, listeners, handles, pending, eCalls>>
  /\ UNCHANGED synced
  /\ UNCHANGED outsideEvent

\* connectToPeers up to its await: the status becomes "connecting".
Connecting(from) ==
  /\ status' = "connecting"
  /\ pending' = pending \cup {[from |-> from, call |-> eCalls + 1]}

\* CRDTSync.start up to its first await, or to its end when it has none.
Start ==
  /\ EngineCall("start", "")
  /\ IF mode = "realtime" /\ peers > 0
     THEN /\ Connecting("start")
          /\ emitted' = <<>>
          /\ UNCHANGED <<syncInterval, timers>>
     ELSE /\ IF mode = "periodic"
             THEN syncInterval' = TRUE /\ timers' = timers + 1
             ELSE UNCHANGED <<syncInterval, timers>>
          /\ emitted' = <<Ev("sync_start", status)>>
          /\ UNCHANGED <<status, pending>>
  /\ UNCHANGED <<eDoc, peerDoc, wsProvider, mode, peers, listeners,
                 handles, running>>
  /\ UNCHANGED synced
  /\ UNCHANGED outsideEvent

\* connectToPeers after its await: the provider is created and its handlers
\* are registered; start then emits sync_start.
ConnectResolve(t) ==
  /\ running = "none"
  /\ pending' = pending \ {t}
  /\ wsProvider' = TRUE
  /\ emitted' = IF t.from = "start" THEN <<Ev("sync_start", status)>> ELSE <<>>
  /\ eLast' = [op |-> t.from, arg |-> "resolved"]
  /\ UNCHANGED <<eDoc, peerDoc, status, mode, peers, syncInterval,
                 timers, listeners, handles, running, eCalls>>
  /\ synced' = FALSE
  /\ UNCHANGED outsideEvent

\* connectToPeers after its await when the import of y-websocket failed.
ConnectReject(t) ==
  /\ running = "none"
  /\ pending' = pending \ {t}
  /\ status' = "error"
  /\ emitted' = <<Ev("sync_error", "error")>>
  /\ eLast' = [op |-> t.from, arg |-> "rejected"]
  /\ UNCHANGED <<eDoc, peerDoc, wsProvider, mode, peers, syncInterval,
                 timers, listeners, handles, running, eCalls>>
  /\ UNCHANGED synced
  /\ UNCHANGED outsideEvent

\* CRDTSync.stop
Stop ==
  /\ EngineCall("stop", "")
  /\ timers' = IF syncInterval THEN timers - 1 ELSE timers
  /\ syncInterval' = FALSE
  /\ wsProvider' = FALSE
  /\ status' = "idle"
  /\ emitted' = <<Ev("disconnected", "idle")>>
  /\ UNCHANGED <<eDoc, peerDoc, mode, peers, listeners, handles,
                 running, pending>>
  /\ synced' = FALSE
  /\ UNCHANGED outsideEvent

\* The handlers registered on the provider for "sync", "connection-close"
\* and "connection-error".
ProviderEvent(name, st, type) ==
  /\ wsProvider
  /\ running = "none"
  /\ status' = st
  /\ emitted' = <<Ev(type, st)>>
  /\ eLast' = [op |-> "provider", arg |-> name]
  /\ UNCHANGED <<eDoc, peerDoc, wsProvider, mode, peers, syncInterval,
                 timers, listeners, handles, running, pending, eCalls>>
  /\ synced' = (name = "sync")
  /\ UNCHANGED outsideEvent

ProviderSync == ProviderEvent("sync", "connected", "connected")

ProviderClose == ProviderEvent("connection-close", "idle", "disconnected")

ProviderError == ProviderEvent("connection-error", "error", "sync_error")

\* CRDTSync.addPeer up to its await, or to its end when it has none.
AddPeer ==
  /\ peers < 1
  /\ EngineCall("addPeer", "")
  /\ peers' = peers + 1
  /\ IF mode = "realtime" /\ ~wsProvider
     THEN Connecting("addPeer")
     ELSE UNCHANGED <<status, pending>>
  /\ emitted' = <<>>
  /\ UNCHANGED <<eDoc, peerDoc, wsProvider, mode, syncInterval, timers,
                 listeners, handles, running>>
  /\ UNCHANGED synced
  /\ UNCHANGED outsideEvent

\* CRDTSync.removePeer of a configured peer.
RemovePeer ==
  /\ peers > 0
  /\ EngineCall("removePeer", "")
  /\ peers' = peers - 1
  /\ IF peers = 1 /\ wsProvider
     THEN wsProvider' = FALSE /\ status' = "idle"
     ELSE UNCHANGED <<wsProvider, status>>
  /\ emitted' = <<>>
  /\ UNCHANGED <<eDoc, peerDoc, mode, syncInterval, timers, listeners,
                 handles, running, pending>>
  /\ synced' = IF peers = 1 /\ wsProvider THEN FALSE ELSE synced
  /\ UNCHANGED outsideEvent

EventInit ==
  /\ SyncInit /\ VaultConstructed("memory")
  /\ StoreConstructed /\ BackendConstructed
  /\ \E m \in Modes : EventConstructed(m)
  /\ ServerConstructed

EventNext ==
  \/ \E l \in Listeners : OnEvent(l)
  \/ \E l \in Listeners : Unsubscribe(l)
  \/ \E k \in EngineKeys : EngineSet(k)
  \/ \E k \in EngineKeys : EngineRemove(k)
  \/ \E k \in EngineKeys : EngineImportEntries(k)
  \/ \E k \in EngineKeys : PeerSet(k)
  \/ \E k \in EngineKeys : PeerRemove(k)
  \/ \E u \in PeerUpdates, origin \in Origins : EngineApplyUpdate(u, origin)
  \/ SyncNow
  \/ TimerTick
  \/ \E l \in Listeners : ReenterSyncNow(l)
  \/ \E l \in Listeners : SyncStartThrows(l)
  \/ SyncNowEncode
  \/ \E l \in Listeners : SyncCompleteThrows(l)
  \/ SyncNowReturn
  \/ Start
  \/ \E t \in pending : ConnectResolve(t)
  \/ \E t \in pending : ConnectReject(t)
  \/ Stop
  \/ ProviderSync
  \/ ProviderClose
  \/ ProviderError
  \/ AddPeer
  \/ RemovePeer

EventSpec == EventInit /\ [][EventNext]_vars

\* ---------------------------------------------------------------- server calls
\* A call of device d's store; new Date() moves with every call.
ServerCall(op, d, k) ==
  /\ uCalls < MaxServerCalls
  /\ uCalls' = uCalls + 1
  /\ uLast' = [op |-> op, dev |-> d, key |-> k]

\* UserStorage.saveCRDTState: the whole state, encoded.
SavedState(d) == EncodeStateAsUpdate(d, [c \in Replicas |-> 0])

\* UserStorage.get: the row of the key, or null.
UserGet(rows, k) == IF rows[k] = Absent THEN Null ELSE rows[k]

\* UserStorage.keys
UserKeys(rows) == {k \in Keys : rows[k] # Absent}

\* UserStorage.put
UserPut(d, k, blob) ==
  /\ ServerCall("put", d, k)
  /\ LET now == uCalls + 1
         existing == UserGet(uRows[d], k)
         version == (IF existing = Null THEN 0 ELSE existing.version) + 1
         after == TypeMapSet(uDoc[d], d, k,
                             [encrypted_data |-> blob, updated_at |-> now,
                              version |-> version])
     IN /\ uRows' = [uRows EXCEPT ![d][k] =
                       [encrypted_data |-> blob,
                        created_at |-> IF existing = Null THEN now ELSE existing.created_at,
                        updated_at |-> now,
                        version |-> version]]
        /\ uDoc' = [uDoc EXCEPT ![d] = after]
        /\ uSaved' = [uSaved EXCEPT ![d] = SavedState(after)]
  /\ UNCHANGED outsideServer

\* UserStorage.delete
UserDelete(d, k) ==
  /\ ServerCall("delete", d, k)
  /\ IF uRows[d][k] # Absent
     THEN LET after == TypeMapDelete(uDoc[d], k)
          IN /\ uRows' = [uRows EXCEPT ![d][k] = Absent]
             /\ uDoc' = [uDoc EXCEPT ![d] = after]
             /\ uSaved' = [uSaved EXCEPT ![d] = SavedState(after)]
     ELSE UNCHANGED <<uRows, uDoc, uSaved>>
  /\ UNCHANGED outsideServer

\* The loop of UserStorage.applyUpdate over the entries of the map: a row
\* is written when the key has none or one of a lower version.
SyncRows(rows, a, now) ==
  [k \in Keys |->
     IF MapHas(a, k) /\ (rows[k] = Absent \/ rows[k].version < MapGet(a, k).version)
     THEN [encrypted_data |-> MapGet(a, k).encrypted_data,
           created_at |-> IF rows[k] = Absent THEN now ELSE rows[k].created_at,
           updated_at |-> MapGet(a, k).updated_at,
           version |-> MapGet(a, k).version]
     ELSE rows[k]]

\* The update device d is handed: what device o answers to /sync for d's
\* state vector, or for none.
ServerUpdate(d, o, full) ==
  EncodeStateAsUpdate(uDoc[o], IF full THEN [c \in Replicas |-> 0]
                                       ELSE getStateVector(uDoc[d]))

\* UserStorage.applyUpdate
UserApplyUpdate(d, u) ==
  /\ ServerCall("applyUpdate", d, "")
  /\ LET after == ApplyUpdateDoc(uDoc[d], u)
     IN /\ uDoc' = [uDoc EXCEPT ![d] = after]
        /\ uSaved' = [uSaved EXCEPT ![d] = SavedState(after)]
        /\ uRows' = [uRows EXCEPT ![d] = SyncRows(uRows[d], after, uCalls + 1)]
  /\ UNCHANGED outsideServer

ServerInit ==
  /\ SyncInit /\ VaultConstructed("memory")
  /\ StoreConstructed /\ BackendConstructed /\ EventConstructed("manual") /\ ServerConstructed

ServerNext ==
  \/ \E d \in Replicas, k \in Keys, blob \in Blobs : UserPut(d, k, blob)
  \/ \E d \in Replicas, k \in Keys : UserDelete(d, k)
  \/ \E d \in Replicas, o \in Replicas, full \in BOOLEAN :
       o # d /\ UserApplyUpdate(d, ServerUpdate(d, o, full))

ServerSpec == ServerInit /\ [][ServerNext]_vars

\* ---------------------------------------------------------------- claims
\* The deltas a replica can be handed: those on the wire (possibly stale)
\* and those a replica would produce now.
Deltas == net \cup {getUpdatesSince(doc[s], sv) : <<s, sv>> \in
                     UNION {{<<t, v>> : v \in TargetSVs(t)} : t \in Replicas}}

\* b applies the delta a computes for b's state vector, then a applies the
\* delta b computes for a's state vector.
ExchangeBoth(a, b) ==
  LET b1 == ApplyUpdateDoc(doc[b], getUpdatesSince(doc[a], getStateVector(doc[b])))
      a1 == ApplyUpdateDoc(doc[a], getUpdatesSince(b1, getStateVector(doc[a])))
  IN <<a1, b1>>

\* C1: whatever the two replicas did locally and exchanged so far, once they
\* exchange deltas in both directions and their state vectors match, they
\* hold the same keys with the same entries.
C1_Convergence ==
  \A a, b \in Replicas : a # b =>
    LET x == ExchangeBoth(a, b)
    IN getStateVector(x[1]) = getStateVector(x[2]) => toJSON(x[1]) = toJSON(x[2])

\* C1 witness: both replicas hold items of both clients, their state vectors
\* match, and they show the same non-empty map.
C1_Witness ==
  \E a, b \in Replicas :
    /\ a # b
    /\ getStateVector(doc[a]) = getStateVector(doc[b])
    /\ getState(doc[a], a) > 0 /\ getState(doc[a], b) > 0
    /\ toJSON(doc[a]) = toJSON(doc[b])
    /\ MapKeys(doc[a]) # {}

\* The entry a put of v under k by replica r would hand to the map now.
NextEntry(r, k, v) ==
  storedToSynced(VaultPutEntry(storage[r], k, v, generateKey(r), Fresh, Fresh))

\* C2: two replicas that show the same item for a key each set the key
\* without seeing the other's write; after each applied the other's delta
\* both return the same entry, whichever side applies first.
C2_ConcurrentSet ==
  \A a, b \in Replicas : \A k \in Keys : \A v \in Values :
    (a # b /\ MapHas(doc[a], k) /\ doc[a].lst[k] = doc[b].lst[k]) =>
      LET a1 == CrdtSet(doc[a], a, k, NextEntry(a, k, v))
          b1 == CrdtSet(doc[b], b, k, NextEntry(b, k, v))
          a2 == ApplyUpdateDoc(a1, getUpdatesSince(b1, getStateVector(a1)))
          b2 == ApplyUpdateDoc(b1, getUpdatesSince(a1, getStateVector(b1)))
          b3 == ApplyUpdateDoc(b1, getUpdatesSince(a2, getStateVector(b1)))
          a3 == ApplyUpdateDoc(a1, getUpdatesSince(b2, getStateVector(a1)))
      IN /\ MapGet(a2, k) = MapGet(b2, k)
         /\ MapGet(a2, k) = MapGet(b3, k)
         /\ MapGet(a3, k) = MapGet(b2, k)
         /\ MapGet(a2, k) \in {NextEntry(a, k, v), NextEntry(b, k, v)}

\* C2 witness: both replicas hold two items of different clients that
\* replaced the same earlier item of the key, and return the same entry.
C2_Witness ==
  \E a, b \in Replicas : \E k \in Keys :
    /\ a # b
    /\ \E x, y \in Range(doc[a].lst[k]) :
         x.client = a /\ y.client = b /\ x.origin = y.origin /\ x.origin # NoId
    /\ doc[a].lst[k] = doc[b].lst[k]
    /\ MapHas(doc[a], k)

\* C3: applying a delta a second time changes nothing.
C3_Idempotent ==
  \A r \in Replicas : \A u \in Deltas :
    LET once == ApplyUpdateDoc(doc[r], u)
    IN ApplyUpdateDoc(once, u) = once

\* C3 witness: a delta of another replica's items is on the wire and the
\* replica has already applied all of it.
C3_Witness ==
  \E r \in Replicas : \E u \in net :
    /\ \E it \in u.structs : it.client # r
    /\ \A it \in u.structs : IdOf(it) \in IdsOf(doc[r])
    /\ u.ds \subseteq DeletedIds(doc[r])

\* C4: two deltas applied in either order leave the same replicated map.
C4_Commutative ==
  LET D == Deltas
  IN \A r \in Replicas : \A p \in {q \in SUBSET D : Cardinality(q) = 2} :
       LET u1 == CHOOSE u \in p : TRUE
           u2 == CHOOSE u \in p : u # u1
       IN ApplyUpdateDoc(ApplyUpdateDoc(doc[r], u1), u2)
            = ApplyUpdateDoc(ApplyUpdateDoc(doc[r], u2), u1)

\* C4 witness: a replica holds items and deletions of another replica while
\* a delta it has not fully applied is on the wire.
C4_Witness ==
  \E r \in Replicas : \E u \in net :
    /\ \E it \in ItemsOf(doc[r]) : it.client # r
    /\ \E it \in u.structs : IdOf(it) \notin IdsOf(doc[r])
    /\ doc[r].pend # {}

\* The item that holds key k in doc d (NoId when there is none).
HolderId(d, k) == IF d.lst[k] = <<>> THEN NoId ELSE IdOf(d.lst[k][Len(d.lst[k])])

\* C5: A and B hold k, B shows an item of k that A has seen, and B's
\* initialize() is complete; A deletes k and B applies the delta A computes
\* for B's state vector: then B's map does not have k and B's storage
\* does not hold it.
C5_DeletePropagates ==
  \A a, b \in Replicas : \A k \in Keys :
    ( /\ a # b
      /\ StorageHas(storage[a], k) /\ MapHas(doc[a], k)
      /\ StorageHas(storage[b], k) /\ MapHas(doc[b], k)
      /\ observing[b]
      /\ HolderId(doc[b], k) \in IdsOf(doc[a]) ) =>
      LET a1 == CrdtRemove(doc[a], k)
          b1 == ApplyUpdateDoc(doc[b], getUpdatesSince(a1, getStateVector(doc[b])))
          sb == ObserverEffect(storage[b], doc[b], b1, initialized[b])
      IN ~MapHas(b1, k) /\ ~StorageHas(sb, k)

\* C5 witness: the item of A that held k is deleted on A and on B, both
\* have the same history of k, and neither storage holds k any more.
C5_Witness ==
  \E a, b \in Replicas : \E k \in Keys :
    /\ a # b
    /\ doc[a].lst[k] # <<>>
    /\ doc[a].lst[k] = doc[b].lst[k]
    /\ doc[a].lst[k][Len(doc[a].lst[k])].client = a
    /\ ~MapHas(doc[a], k)
    /\ observing[a] /\ observing[b]
    /\ ~StorageHas(storage[a], k) /\ ~StorageHas(storage[b], k)

\* C6: whenever no put, delete or applyUpdate of a SyncedVault is in
\* progress, its replicated map and its storage hold the same keys with the
\* same entries.
C6_MapStorageAgree ==
  \A r \in Replicas : Quiet(r) =>
    \A k \in Keys :
      /\ MapHas(doc[r], k) => storage[r][k] = syncedToStored(MapGet(doc[r], k))
      /\ StorageHas(storage[r], k) => MapHas(doc[r], k)

\* C7: a step that applies a delta writes to storage, for every key it
\* writes, exactly the entry the replicated map then holds for that key,
\* and that entry is one a delta or the pending store carried.
C7_ImportedAsIs ==
  [][\A r \in Replicas : \A k \in Keys :
       ( /\ tasks' = tasks /\ net' = net
         /\ storage'[r][k] # storage[r][k]
         /\ storage'[r][k] # Absent ) =>
         /\ storage'[r][k] = syncedToStored(MapGet(doc'[r], k))
         /\ \E it \in UNION {u.structs : u \in net} \cup doc[r].pend :
              it.key = k /\ it.val = storage'[r][k]]_vars

\* C7 witness: a storage holds, for a key its map also holds, an entry
\* that another replica encrypted.
C7_Witness ==
  \E r \in Replicas : \E k \in Keys :
    /\ StorageHas(storage[r], k)
    /\ storage[r][k].encrypted.ciphertext[3] # generateKey(r)
    /\ MapGet(doc[r], k) = storage[r][k]

\* C8: every entry a replica holds for a key, in its replicated map or in
\* its storage, is one that EncryptedVault.put produced for that key.
C8_NoInventedVersion ==
  \A r \in Replicas : \A k \in Keys :
    /\ MapHas(doc[r], k) => <<k, syncedToStored(MapGet(doc[r], k))>> \in produced
    /\ StorageHas(storage[r], k) => <<k, storage[r][k]>> \in produced

\* C8 witness: a replica holds, in map and storage, version 2 of a key that
\* another replica wrote.
C8_Witness ==
  \E r \in Replicas : \E k \in Keys :
    /\ StorageHas(storage[r], k) /\ MapHas(doc[r], k)
    /\ storage[r][k].version = 2
    /\ MapGet(doc[r], k).version = 2
    /\ storage[r][k].encrypted.ciphertext[3] # generateKey(r)

C11_CleanReplay ==
  \A s \in Replicas :
    LET viaSync == ApplyUpdateDoc(EmptyDoc, syncNow(doc[s]))
        viaSince == ApplyUpdateDoc(EmptyDoc, getUpdatesSince(doc[s], ZeroSV))
        stored == ObserverEffect([k \in Keys |-> Absent], EmptyDoc, viaSync, TRUE)
    IN /\ toJSON(viaSync) = toJSON(doc[s])
       /\ toJSON(viaSince) = toJSON(doc[s])
       /\ StorageGetAll(stored) = [k \in MapKeys(doc[s]) |-> syncedToStored(MapGet(doc[s], k))]

\* C11 witness: the sender's full state is on the wire; a replica that
\* wrote nothing itself holds exactly the items of that delta, one of them
\* deleted, and shows the sender's map and stores its entries.
C11_Witness ==
  \E s, r \in Replicas : \E u \in net :
    /\ s # r
    /\ u = syncNow(doc[s])
    /\ getState(doc[r], r) = 0
    /\ IdsOf(doc[r]) = {IdOf(it) : it \in u.structs}
    /\ DeletedIds(doc[r]) # {}
    /\ MapKeys(doc[s]) # {}
    /\ toJSON(doc[r]) = toJSON(doc[s])
    /\ observing[r]
    /\ StorageGetAll(storage[r]) = toJSON(doc[r])

\* The ids of a set of items.
StructIds(structs) == {IdOf(it) : it \in structs}

\* Delta u depends on operations that document d has not incorporated and
\* that neither u nor the pending store of d supplies: an earlier clock of
\* the same client, or the origin of an item.
CausalGap(d, u) ==
  LET known == IdsOf(d) \cup StructIds(u.structs) \cup StructIds(d.pend)
  IN \E it \in u.structs :
       \/ \E c \in 0..(it.clock - 1) : <<it.client, c>> \notin known
       \/ it.origin # NoId /\ it.origin \notin known

C13_Mirrored ==
  [][\A r \in Replicas : \A i \in 1..MaxTasks :
       /\ (tasks[r][i].op = "put" /\ tasks[r][i].pc = "set" /\ tasks'[r][i] = Idle) =>
            \E it \in Range(doc'[r].lst[tasks[r][i].key]) :
              /\ IdOf(it) \notin IdsOf(doc[r])
              /\ it.client = r
              /\ it.val = storedToSynced(tasks[r][i].wrote)
       /\ (tasks[r][i].op = "delete" /\ tasks'[r][i] = Idle) =>
            /\ ~MapHas(doc'[r], tasks[r][i].key)
            /\ HolderId(doc[r], tasks[r][i].key) \in DeletedIds(doc'[r])]_vars

\* The step is a call of op that settled.
CallOf(op) == calls' = calls + 1 /\ last'.op = op

\* The data operations of EncryptedVault.
DataOps == {"put", "get", "delete", "keys", "has", "export", "import"}

\* C14: a put that resolves on a key that storage holds stores and returns
\* the stored version plus one and keeps createdAt; on an absent key it
\* stores and returns version 1.
C14_PutVersion ==
  [][(CallOf("put") /\ last'.err = "none") =>
       LET k == last'.key
       IN /\ last'.ret.version = vData'[k].version
          /\ IF vData[k] # Absent
             THEN /\ vData'[k].version = vData[k].version + 1
                  /\ vData'[k].createdAt = vData[k].createdAt
                  /\ last'.ret.createdAt = vData[k].createdAt
             ELSE vData'[k].version = 1]_vars

\* C14 witness: the last call was a put that returned version 2 of a key
\* created by an earlier call.
C14_Witness ==
  /\ last.op = "put" /\ last.err = "none"
  /\ last.ret.version = 2
  /\ vData[last.key].version = 2
  /\ vData[last.key].createdAt < vData[last.key].updatedAt

\* C15: as long as only put and delete wrote to the vault, the versions
\* that successive puts assigned to a key are strictly increasing.
C15_VersionsIncrease ==
  onlyPutDelete =>
    \A k \in Keys : \A i, j \in 1..Len(putVersions[k]) :
      i < j => putVersions[k][i] < putVersions[k][j]

\* C16: a data operation called while the vault is not initialized rejects
\* with NotInitialized and leaves storage as it was.
C16_NotInitialized ==
  [][(calls' = calls + 1 /\ last'.op \in DataOps /\ ~vInitialized) =>
       /\ last'.err = "NotInitialized"
       /\ vData' = vData /\ dbOpen' = dbOpen]_vars

\* C16 witness: a put on a vault that was never initialized was rejected
\* with NotInitialized.
C16_Witness ==
  /\ last.op = "put" /\ last.err = "NotInitialized"
  /\ ~destroyed /\ ~vInitialized /\ heap = <<>>

\* C17: once destroy() has run the vault is never initialized again.
C17_DestroyedTerminal == destroyed => ~vInitialized

\* C18: initializeWithKey with a key that is not 32 bytes long rejects with
\* InvalidKeyLength and leaves the vault with the key and the state it had;
\* with a 32-byte key it resolves, the vault is initialized and its key is a
\* copy of the caller's bytes.
C18_KeyLength ==
  [][\A key \in CallerKeys :
       (CallOf("initializeWithKey") /\ VaultInitializeWithKey(key)) =>
         IF key.len # KEY_LENGTH
         THEN /\ last'.err = "InvalidKeyLength"
              /\ vInitialized' = vInitialized
              /\ encryptionKey' = encryptionKey
              /\ heap' = heap
              /\ vData' = vData
         ELSE /\ last'.err = "none"
              /\ vInitialized'
              /\ encryptionKey' # NoKey /\ encryptionKey' # encryptionKey
              /\ heap'[encryptionKey'] = [len |-> KEY_LENGTH, bytes |-> key.bytes]]_vars

\* C18 witness: an initialized vault that holds an entry rejected a key of
\* the wrong length and still decrypts the entry.
C18_Witness ==
  /\ last.op = "initializeWithKey" /\ last.err = "InvalidKeyLength"
  /\ vInitialized /\ encryptionKey # NoKey
  /\ \E k \in Keys : vData[k] # Absent /\ VaultGetResult(k).err = "none"

\* C19: from any state, destroy() overwrites the vault's key buffer with
\* zeros, drops the reference to it, closes the storage backend and leaves
\* the vault not initialized.
C19_Destroy ==
  [][CallOf("destroy") =>
       /\ last'.err = "none"
       /\ encryptionKey # NoKey =>
            heap'[encryptionKey] = [len |-> KEY_LENGTH, bytes |-> <<"zero", 0>>]
       /\ encryptionKey' = NoKey
       /\ IF backend = "memory" THEN StorageKeys(vData') = {} ELSE ~dbOpen'
       /\ ~vInitialized']_vars

\* C19 witness: a vault that held a key and an entry was destroyed; its key
\* buffer is all zeros.
C19_Witness ==
  /\ last.op = "destroy"
  /\ putVersions # [k \in Keys |-> <<>>]
  /\ heap # <<>> /\ heap[Len(heap)].bytes = <<"zero", 0>>
  /\ encryptionKey = NoKey /\ ~vInitialized

\* C20 as claimed: while the vault stays initialized with the key it had and
\* nothing wrote to the key since, get returns exactly the value the last
\* put was given, with the version that put returned.
C20_RoundTrip ==
  \A k \in Keys : lastPut[k] # None =>
    /\ VaultGetResult(k).err = "none"
    /\ VaultGetResult(k).ret.data = lastPut[k].value
    /\ VaultGetResult(k).ret.version = lastPut[k].version

\* C20 amended: under the same conditions get returns the JSON round trip
\* of the value (JSON.parse of JSON.stringify), which is the value itself
\* when JSON represents it, with the version that put returned.
C20_JsonRoundTrip ==
  \A k \in Keys : lastPut[k] # None =>
    LET v == lastPut[k].value
    IN /\ VaultGetResult(k).err = "none"
       /\ VaultGetResult(k).ret.data = JSONParse(JSONStringify(v))
       /\ v.t = "string" => VaultGetResult(k).ret.data = v
       /\ VaultGetResult(k).ret.version = lastPut[k].version

\* C20 witness: the last call was a get that returned the string the put
\* before it stored, at version 2.
C20_Witness ==
  /\ last.op = "get" /\ last.err = "none"
  /\ lastPut[last.key] # None
  /\ lastPut[last.key].value.t = "string"
  /\ last.ret.data = lastPut[last.key].value
  /\ last.ret.version = 2

\* Every encrypted payload the vault has seen, and every key it has held or
\* another vault used.
SeenPayloads ==
  {vData[k].encrypted : k \in {x \in Keys : vData[x] # Absent}}
    \cup {ForeignEntry.encrypted}

SeenKeys == {heap[i].bytes : i \in 1..Len(heap)} \cup {<<"other", 0>>}

Ciphertexts ==
  {encrypt(v, generateKey(r), iv) : v \in Values, r \in Replicas, iv \in 1..MaxOps}

\* Every entry that is persisted (storage), replicated (the items of the
\* map, integrated or pending) or transmitted (the items of a delta).
Persisted == {storage[r][k] : r \in Replicas, k \in Keys} \ {Absent}

Replicated ==
  {it.val : it \in UNION {ItemsOf(doc[r]) \cup doc[r].pend : r \in Replicas}} \ {Gone}

Transmitted == {it.val : it \in UNION {u.structs : u \in net}} \ {Gone}

\* C22: every entry in storage, in the replicated map or in a delta carries
\* as its value an output of encrypt, and no part of it is the plaintext
\* that was handed to put.
C22_NoPlaintext ==
  \A e \in Persisted \cup Replicated \cup Transmitted :
    /\ e.encrypted \in Ciphertexts
    /\ e.encrypted.ciphertext[1] = "enc"
    /\ DOMAIN e = {"encrypted", "createdAt", "updatedAt", "version"}
    /\ DOMAIN e.encrypted = {"ciphertext", "iv", "authTag"}
    /\ {e.createdAt, e.updatedAt, e.version, e.encrypted.iv} \subseteq Nat

\* C22 witness: an entry that a put encrypted is in storage, in the map of
\* another replica and in a delta on the wire.
C22_Witness ==
  \E r, t \in Replicas, k \in Keys :
    /\ r # t
    /\ storage[r][k] # Absent
    /\ <<k, storage[r][k]>> \in produced
    /\ MapGet(doc[t], k) = storedToSynced(storage[r][k])
    /\ storage[r][k] \in Transmitted

\* C23: a createVault(name) made while a vault is registered under name
\* settles at once with the duplicate-vault error, and leaves the vaults
\* map, the registered vault and every vault object as they were.
C23_DuplicateRejected ==
  [][\A n \in Names :
       (/\ invoked' # invoked
        /\ invoked'.op = "createVault" /\ invoked'.name = n
        /\ HasVault(n))
       => /\ storeLast' = [op |-> "createVault", name |-> n,
                            call |-> invoked'.call, err |-> "VaultExists",
                            ret |-> Null]
          /\ registry' = registry
          /\ vaultObjs' = vaultObjs
          /\ storeTasks' = storeTasks]_vars

\* C23 witness: the latest call was a createVault of a registered name; it
\* failed with the duplicate-vault error and the vault registered before
\* is still registered and initialized.
C23_Witness ==
  /\ storeLast.op = "createVault" /\ storeLast.err = "VaultExists"
  /\ storeLast.call = invoked.call
  /\ HasVault(storeLast.name)
  /\ vaultObjs[registry[storeLast.name].vault].initialized
  /\ Len(vaultObjs) = 1

\* C24: after every sequence of get, put, delete, keys, has, getAll,
\* importAll and clear made to both backends, the latest call returned the
\* same from both, and both hold the same mapping: the same keys, the same
\* entry under every key and the same export.
C24_SameContract ==
  /\ bLast.memRet = bLast.sqlRet
  /\ \A n \in VaultNames :
       /\ StorageKeys(mem[n]) = SqlKeys(table, n)
       /\ \A k \in EntryKeys :
            /\ StorageGet(mem[n], k) = SqlGet(table, n, k)
            /\ StorageHas(mem[n], k) = SqlHas(table, n, k)
       /\ StorageGetAll(mem[n]) = SqlGetAll(table, n)

\* C24 witness: after a put that replaced an entry, getAll returned from
\* both backends the same mapping, whose entry has a salt and version 2.
C24_Witness ==
  /\ bCalls >= 3
  /\ bLast.op = "getAll"
  /\ bLast.memRet = bLast.sqlRet
  /\ "k1" \in DOMAIN bLast.sqlRet.value
  /\ bLast.sqlRet.value["k1"].version = 2
  /\ bLast.sqlRet.value["k1"].encrypted.salt = "s1"
  /\ mem["v2"]["k1"] # Absent /\ mem["v2"]["k1"].version = 1

\* The table without the rows of vault m.
Without(t, m) == [p \in DOMAIN t |-> IF p[1] = m THEN Absent ELSE t[p]]

\* C25: a call made to the durable backend of one vault name changes no
\* row of another vault name in the shared table, and returns what it
\* would return if the other vault had no rows at all, also when both
\* vaults hold an entry under the same key.
C25_Isolated ==
  [][\A n \in VaultNames :
       (bCalls' = bCalls + 1 /\ bLast'.inst = n)
       => \A m \in VaultNames \ {n} :
            /\ \A k \in EntryKeys : table'[<<m, k>>] = table[<<m, k>>]
            /\ bLast'.sqlRet = SqlReturn(bLast'.op, Without(table, m), n, bLast'.key)
            /\ \A k \in EntryKeys :
                 SqlGet(table', n, k) =
                   SqlGet(Without(table', m), n, k)]_vars

\* C25 witness: vault v1 has just cleared its entries while vault v2 holds
\* an entry under the key v1 had used, and v2 still reads it.
C25_Witness ==
  /\ bLast.op = "clear" /\ bLast.inst = "v1"
  /\ held # [k \in {} |-> Absent] /\ "k1" \in DOMAIN held
  /\ SqlKeys(table, "v1") = {}
  /\ SqlGet(table, "v2", "k1") \in StoredEntries
  /\ SqlGet(table, "v2", "k1") # held["k1"]

\* C26 as claimed: for every state of a backend, getAll followed by clear
\* and importAll of the exported mapping leaves the backend with the keys
\* and entries it had.
C26_RoundTrip ==
  \A n \in VaultNames :
    /\ SqlImportAll(SqlClear(table, n), n, SqlGetAll(table, n)) = table
    /\ StorageImportAll(StorageClear(mem[n]), StorageGetAll(mem[n])) = mem[n]

\* How the visible value of key k changed between the docs b and a.
VisibleChange(b, a, k) ==
  IF MapGet(b, k) = MapGet(a, k) THEN "none"
  ELSE IF MapGet(b, k) = Absent THEN "add"
  ELSE IF MapGet(a, k) = Absent THEN "delete"
  ELSE "update"

\* C27 as claimed: when a replica merges a delta, the change event has a
\* record for a key exactly when the visible value of the key changed, its
\* action tells how it changed, and an observing SyncedVault then holds the
\* entry of every added or updated key in storage and has no entry for a
\* removed key.
C27_ChangeRecords ==
  [][\A r \in Replicas :
       (doc'[r] # doc[r] /\ tasks' = tasks)
       => \A k \in Keys :
            /\ ChangeAction(doc[r], doc'[r], k) = VisibleChange(doc[r], doc'[r], k)
            /\ observing[r] =>
                 /\ VisibleChange(doc[r], doc'[r], k) \in {"add", "update"}
                      => storage'[r][k] = syncedToStored(MapGet(doc'[r], k))
                 /\ VisibleChange(doc[r], doc'[r], k) = "delete"
                      => storage'[r][k] = Absent
                 /\ VisibleChange(doc[r], doc'[r], k) = "none"
                      => storage'[r][k] = storage[r][k]]_vars

\* C27 amended: when a replica merges a delta, the change event has one
\* record for every key whose visible value changed, with the action that
\* tells how it changed; it also has an "update" record for a key whose
\* holding item was replaced by an item that carries an identical entry,
\* and it has no record for a key that is still held by the same item.  An
\* observing SyncedVault then holds the entry of every added or updated key
\* in storage, has no entry for a removed key, and leaves every other key
\* as it was.
C27_ChangeRecordsByHolder ==
  [][\A r \in Replicas :
       (doc'[r] # doc[r] /\ tasks' = tasks)
       => \A k \in Keys :
            LET act == ChangeAction(doc[r], doc'[r], k)
                vis == VisibleChange(doc[r], doc'[r], k)
            IN /\ \/ act = vis
                  \/ /\ act = "update" /\ vis = "none"
                     /\ HolderId(doc[r], k) # HolderId(doc'[r], k)
               /\ observing[r] =>
                    /\ act \in {"add", "update"}
                         => storage'[r][k] = syncedToStored(MapGet(doc'[r], k))
                    /\ act = "delete" => storage'[r][k] = Absent
                    /\ act = "none" => storage'[r][k] = storage[r][k]]_vars

\* C27 witness: an observing replica shows under a key an entry that the
\* other replica encrypted and set, and holds that entry in storage, while
\* a delta is on the wire.
C27_Witness ==
  \E r, t \in Replicas, k \in Keys :
    /\ r # t /\ observing[r]
    /\ net # {}
    /\ MapHas(doc[r], k)
    /\ HolderId(doc[r], k)[1] = t
    /\ MapGet(doc[r], k).encrypted.ciphertext[3] = generateKey(t)
    /\ storage[r][k] = syncedToStored(MapGet(doc[r], k))
    /\ MapGet(doc[r], k).version = 2

\* The events of the given type in what the last step emitted.
EmittedOf(type) == {i \in 1..Len(emitted) : emitted[i].type = type}

C29_ManualSyncStatus ==
  /\ eCalls = 0 /\ eLast.op = "new" => status = "idle"
  /\ status = "syncing" => running # "none"
  /\ eLast.op = "syncNow" /\ running = "none" /\ eLast.arg # "reentrant"
       => status = IF wsProvider THEN "connected" ELSE "idle"

\* C29: a syncNow call has ended with the exception of a listener of
\* sync_start, and the status is still 'syncing'.
C29_StuckSyncing ==
  /\ eLast = [op |-> "syncNow", arg |-> "threw"]
  /\ running = "none"
  /\ status = "syncing"


TombstoneCase(s, r, k) ==
  /\ s # r
  /\ doc[s].lst[k] # <<>> /\ ~MapHas(doc[s], k)
  /\ MapHas(doc[r], k)
  /\ HolderId(doc[r], k)[1] = r
  /\ HolderId(doc[r], k) \notin IdsOf(doc[s])
  /\ HolderId(doc[s], k) \notin IdsOf(doc[r])

\* The delta of s that carries its removals and no item.
TombstoneDelta(s) == getUpdatesSince(doc[s], getStateVector(doc[s]))

\* The replicas that receive the removal before the insert: a clean one and r.
Receivers(r) == {EmptyDoc, doc[r]}

Orphans ==
  {v \in 1..Len(vaultObjs) :
     /\ ~vaultObjs[v].destroyed
     /\ \A n \in Names : registry[n].vault # v
     /\ \A t \in storeTasks : ~(t.op = "createVault" /\ t.vault = v)}

\* C32: a createVault call returns a vault only when no vault is registered
\* under its name at that moment (every other call fails with the
\* duplicate-vault error), and no vault object is left unregistered and
\* undestroyed.
C32_OneCreateWins ==
  [][/\ (/\ storeLast' # storeLast
         /\ storeLast'.op = "createVault"
         /\ storeLast'.err = "none")
          => ~HasVault(storeLast'.name)
     /\ Orphans' = {}
    ]_vars

\* C32: two createVault calls of one name have both returned a vault, and
\* the vault of the first is initialized, not destroyed and not registered.
C32_Orphaned ==
  /\ storeLast.op = "createVault" /\ storeLast.err = "none"
  /\ Len(vaultObjs) = 2
  /\ vaultObjs[1].name = vaultObjs[2].name
  /\ registry[storeLast.name].vault = 2
  /\ Orphans = {1}
  /\ storeTasks = {}


\* C33: once initialize() of a SyncedVault has completed (the entries
\* observer is subscribed) and no put or delete of it is in progress, every
\* key its replicated map holds is present in its storage.
C33_MapKeysStored ==
  \A r \in Replicas :
    (initialized[r] /\ observing[r] /\ Quiet(r)) =>
      \A k \in MapKeys(doc[r]) : StorageHas(storage[r], k)

\* C33: a vault that never wrote has completed initialize() and shows in
\* its map a key of its peer, merged before the observer was subscribed,
\* that its storage lacks.
C33_MergedBeforeObserver ==
  \E r \in Replicas : \E k \in Keys :
    /\ initialized[r] /\ observing[r] /\ Quiet(r)
    /\ getState(doc[r], r) = 0
    /\ MapHas(doc[r], k)
    /\ ~StorageHas(storage[r], k)


\* C34: when stop() has returned no interval timer is armed, and the
\* interval callback calls syncNow only while a start() is in effect that
\* no stop() has followed.
C34_StoppedMeansNoTimer ==
  [][/\ (eCalls' = eCalls + 1 /\ eLast'.op = "stop") => timers' = 0
     /\ (eCalls' = eCalls + 1 /\ eLast' = [op |-> "syncNow", arg |-> "timer"])
          => syncInterval
    ]_vars

\* C34: after start(), start(), stop() in periodic mode the interval
\* callback has called syncNow and sync_start went out.
C34_TimerAfterStop ==
  /\ mode = "periodic"
  /\ ~syncInterval
  /\ eLast = [op |-> "syncNow", arg |-> "timer"]
  /\ EmittedOf("sync_start") # {}


\* The events in what the step emitted that close a sync.
Closing(ev) == {i \in 1..Len(ev) : ev[i].type \in {"sync_complete", "sync_error"}}

\* C35: a syncNow call that finds the status different from 'syncing' emits
\* one sync_start at once and no other while it runs, emits one sync_complete
\* or sync_error after it and no second one, and does not end before that; a
\* call that finds the status 'syncing' emits nothing and leaves the status.
C35_OneStartOneEnd ==
  [][/\ (eCalls' = eCalls + 1 /\ eLast'.op = "syncNow" /\ status # "syncing")
          => (Len(emitted') = 1 /\ emitted'[1].type = "sync_start")
     /\ (eCalls' = eCalls + 1 /\ eLast'.op = "syncNow" /\ status = "syncing")
          => (emitted' = <<>> /\ status' = status)
     /\ (running = "started" /\ eCalls' = eCalls)
          => (Len(emitted') = 1 /\ Cardinality(Closing(emitted')) = 1
              /\ running' # "none")
     /\ (running \notin {"none", "started"}) => Closing(emitted') = {}
    ]_vars

\* C35: a syncNow call has ended with the error a listener of sync_complete
\* threw, after it emitted sync_start, sync_complete and sync_error.
C35_CompleteAndError ==
  /\ eLast = [op |-> "syncNow", arg |-> "rejected"]
  /\ running = "none"


\* C36: the status is 'connected' only while the provider has reported
\* 'sync' and no connection-close, connection-error, stop or disconnecting
\* peer removal has happened since.
C36_ConnectedMeansSynced == status = "connected" => synced

\* C36: syncNow has returned and left the status 'connected' although the
\* provider has not reported 'sync' since it was created or since its
\* connection failed.
C36_ConnectedUnsynced ==
  /\ eLast = [op |-> "syncNow", arg |-> "returned"]
  /\ status = "connected"
  /\ wsProvider
  /\ ~synced


C38_AllKeysZeroed ==
  last.op = "destroy" =>
    /\ encryptionKey = NoKey
    /\ \A i \in 1..Len(heap) : heap[i].bytes = <<"zero", 0>>

\* C38: destroy() has returned on a vault that was initialized twice; the
\* buffer of its second key is all zeros and the buffer of its first key
\* still holds the key.
C38_ReplacedKeyKept ==
  /\ last.op = "destroy"
  /\ Len(heap) = 2
  /\ heap[2].bytes = <<"zero", 0>>
  /\ heap[1].bytes # <<"zero", 0>>


\* C39: when applyUpdate of a device's store has returned, the row of every
\* key the map holds has the encrypted_data and the version of the map's
\* value.
C39_RowsMatchMap ==
  uLast.op = "applyUpdate" =>
    \A k \in MapKeys(uDoc[uLast.dev]) :
      /\ uRows[uLast.dev][k] # Absent
      /\ uRows[uLast.dev][k].encrypted_data = MapGet(uDoc[uLast.dev], k).encrypted_data
      /\ uRows[uLast.dev][k].version = MapGet(uDoc[uLast.dev], k).version

\* C39: applyUpdate has returned; the row and the map's value of a key
\* carry the same version and different data.
C39_EqualVersionKept ==
  /\ uLast.op = "applyUpdate"
  /\ \E k \in MapKeys(uDoc[uLast.dev]) :
       /\ uRows[uLast.dev][k] # Absent
       /\ uRows[uLast.dev][k].version = MapGet(uDoc[uLast.dev], k).version
       /\ uRows[uLast.dev][k].encrypted_data # MapGet(uDoc[uLast.dev], k).encrypted_data

\* C40: an applyUpdate that takes a key out of the map leaves no row of that
\* key: keys() does not list it and get(key) returns null.
C40_RemoteDelete ==
  [][(uCalls' = uCalls + 1 /\ uLast'.op = "applyUpdate") =>
       \A k \in Keys :
         (MapHas(uDoc[uLast'.dev], k) /\ ~MapHas(uDoc'[uLast'.dev], k))
           => /\ k \notin UserKeys(uRows'[uLast'.dev])
              /\ UserGet(uRows'[uLast'.dev], k) = Null
    ]_vars

\* C40: applyUpdate has returned on a device that wrote nothing itself; the
\* other device removed a key, the map of this device no longer holds it,
\* and its row is still there.
C40_RowSurvives ==
  /\ uLast.op = "applyUpdate"
  /\ getState(uDoc[uLast.dev], uLast.dev) = 0
  /\ \E k \in Keys :
       /\ uDoc[uLast.dev].lst[k] # <<>>
       /\ ~MapHas(uDoc[uLast.dev], k)
       /\ k \in UserKeys(uRows[uLast.dev])

====
